---- MODULE Spec2Model ----
(***************************************************************************)
(* Model of yahaa/storage-plus: the device store (repo/device_repo.rs),    *)
(* the device lifecycle controller (mounter.rs: udev event loop and        *)
(* periodic reconciliation), the device selection cache (server.rs) and    *)
(* the standalone dev-mounter binary (bin/dev-mounter.rs).                 *)
(***************************************************************************)
EXTENDS Integers, Sequences, FiniteSets, TLC

\* ------------------------------------------------------------------ bounds

\* Timestamps returned by now_epoch() are drawn from 1..MaxTs.
MaxTs == 1

\* Number of udev events the event loop handles in one behaviour.
MaxEvents == 3

\* Number of reconciliation passes started in one behaviour.
MaxTicks == 2

\* Cap on the number of rows of the devices table.
MaxRows == 3

\* Number of repo calls the concurrent callers issue in one behaviour.
MaxCalls == 4

\* Number of udev events the dev-mounter binary handles in one behaviour.
MaxDevEvents == 1

\* Number of passes the dev-mounter binary's scheduler starts.
MaxDevTicks == 2

\* The clock of the selection cache runs from 0 to MaxNow seconds.
MaxNow == 2

\* --device-cache-ttl-secs is drawn from 0..MaxTtlSecs.
MaxTtlSecs == 2

\* resolve_path is applied to path segments of up to MaxSegLen characters.
MaxSegLen == 2

\* at most MaxFsOps write_stream calls and upload requests are started.
MaxFsOps == 2

\* uploads made where GET and DELETE requests are served too.
MaxUploads == 1

\* ------------------------------------------------------------ value sets

\* Option::None / SQL NULL.
NULL == "NULL"

UUIDs == {"U1", "U2"}

\* Connections of the r2d2 pool through which upsert_device is called at once.
Callers == {"c1", "c2"}

Devnodes == {"/dev/sdb", "/dev/sdc"}

\* Devnodes of the block events the dev-mounter binary receives.
DevEventNodes == Devnodes \cup {"/dev/vdb"}

\* The characters of a devnode path after the common "/dev/" prefix.
Chars(d) ==
    CASE d = "/dev/sdb" -> <<"s", "d", "b">>
      [] d = "/dev/sdc" -> <<"s", "d", "c">>
      [] d = "/dev/vdb" -> <<"v", "d", "b">>
      [] OTHER -> <<>>

Timestamps == 1..MaxTs

StorageRoot == "/mnt/storage_pool"

\* ------------------------------------------------------------ device store

\* NewDevice as a discovery that admits at once would build it.
NewDeviceJoined(devnode, uuid, ts) ==
    [devnode |-> devnode, uuid |-> uuid, removed |-> 0, joined |-> 1,
     mount_success |-> 0, mount_path |-> NULL, last_seen |-> ts]

\* NewDevice::new / the INSERT of upsert_device: a discovered device is not
\* joined, not mounted and has no mount path.
NewDevice(devnode, uuid, ts) ==
    [devnode |-> devnode, uuid |-> uuid, removed |-> 0, joined |-> 0,
     mount_success |-> 0, mount_path |-> NULL, last_seen |-> ts]

\* upsert_device as an INSERT OR REPLACE would behave: an existing row of the
\* uuid is rebuilt from scratch.
upsert_device_replace(s, devnode, uuid, ts) ==
    LET updated == {i \in DOMAIN s : s[i].uuid = uuid}
    IN  IF updated # {}
        THEN [i \in DOMAIN s |->
                 IF i \in updated
                 THEN [devnode |-> devnode, uuid |-> uuid, removed |-> 0,
                       joined |-> 0, mount_success |-> 0, mount_path |-> NULL,
                       last_seen |-> ts]
                 ELSE s[i]]
        ELSE Append(s, [devnode |-> devnode, uuid |-> uuid, removed |-> 0,
                        joined |-> 0, mount_success |-> 0, mount_path |-> NULL,
                        last_seen |-> ts])

\* upsert_device as it would be with the removed flag left out of the SET list.
upsert_device_keeps_removed(s, devnode, uuid, ts) ==
    LET updated == {i \in DOMAIN s : s[i].uuid = uuid}
    IN  IF updated # {}
        THEN [i \in DOMAIN s |->
                 IF i \in updated
                 THEN [s[i] EXCEPT !.devnode = devnode, !.last_seen = ts]
                 ELSE s[i]]
        ELSE Append(s, [devnode |-> devnode, uuid |-> uuid, removed |-> 0,
                        joined |-> 0, mount_success |-> 0, mount_path |-> NULL,
                        last_seen |-> ts])

\* the UPDATE of upsert_device matching no row, so that it always INSERTs.
RowsUpdatedNone(s, uuid) == {}

\* upsert_device, first statement: UPDATE devices SET devnode, removed = 0,
\* last_seen WHERE uuid = ?; RowsUpdated is the set of rows it matches.
RowsUpdated(s, uuid) == {i \in DOMAIN s : s[i].uuid = uuid}

\* the UPDATE of upsert_device as it would be if rediscovery also reset the
\* mount result.
UpsertUpdateResets(s, devnode, uuid, ts) ==
    [i \in DOMAIN s |->
        IF i \in RowsUpdated(s, uuid)
        THEN [s[i] EXCEPT !.devnode = devnode, !.removed = 0, !.last_seen = ts,
                          !.mount_success = 0]
        ELSE s[i]]

UpsertUpdate(s, devnode, uuid, ts) ==
    [i \in DOMAIN s |->
        IF i \in RowsUpdated(s, uuid)
        THEN [s[i] EXCEPT !.devnode = devnode, !.removed = 0, !.last_seen = ts]
        ELSE s[i]]

\* upsert_device, second statement: INSERT INTO devices.
UpsertInsert(s, devnode, uuid, ts) == Append(s, NewDevice(devnode, uuid, ts))

\* DeviceRepoImpl::upsert_device: one immediate (write-locked) transaction:
\* UPDATE ... WHERE uuid = ?; if no row was updated, INSERT.
upsert_device(s, devnode, uuid, ts) ==
    IF RowsUpdated(s, uuid) # {}
    THEN UpsertUpdate(s, devnode, uuid, ts)
    ELSE UpsertInsert(s, devnode, uuid, ts)

\* mark_removed as an UPDATE that also withdraws the admission.
mark_removed_unjoins(s, devnode, ts) ==
    [i \in DOMAIN s |->
        IF s[i].devnode = devnode
        THEN [s[i] EXCEPT !.removed = 1, !.mount_success = 0,
                          !.last_seen = ts, !.joined = 0]
        ELSE s[i]]

\* DeviceRepoImpl::mark_removed: UPDATE ... WHERE devnode = ?.
mark_removed(s, devnode, ts) ==
    [i \in DOMAIN s |->
        IF s[i].devnode = devnode
        THEN [s[i] EXCEPT !.removed = 1, !.mount_success = 0,
                          !.last_seen = ts]
        ELSE s[i]]

\* DeviceMountRow: the columns selected for mount scheduling.
DeviceMountRow(r) ==
    [devnode |-> r.devnode, uuid |-> r.uuid,
     mount_success |-> r.mount_success, mount_path |-> r.mount_path]

\* the candidate filter with the joined condition left out.
JoinedActiveFilterNoGate(r) == r.removed = 0

\* the candidate filter with the removed condition left out.
JoinedActiveFilterKeepsRemoved(r) == r.joined = 1

\* DeviceRepoImpl::list_joined_active: WHERE removed = 0 AND joined = 1.
JoinedActiveFilter(r) == r.removed = 0 /\ r.joined = 1

list_joined_active(s) ==
    LET kept == SelectSeq(s, JoinedActiveFilter)
    IN  [i \in 1..Len(kept) |-> DeviceMountRow(kept[i])]

\* DeviceRepoImpl::get_active_uuid: the uuid column of the first row WHERE
\* removed = 0 AND joined = 1 AND mount_success = 1; first() of no row and
\* a NULL uuid in the first row both flatten to None.
get_active_uuid(s) ==
    LET Active(r) == r.removed = 0 /\ r.joined = 1 /\ r.mount_success = 1
        kept == SelectSeq(s, Active)
    IN  IF kept = <<>> THEN NULL ELSE kept[1].uuid

\* update_mount_result as an UPDATE ... WHERE devnode = ? alone.
update_mount_result_by_devnode(s, devnode, mount_path, uuid) ==
    [i \in DOMAIN s |->
        IF s[i].devnode = devnode
        THEN [s[i] EXCEPT !.mount_success = 1, !.mount_path = mount_path]
        ELSE s[i]]

\* update_mount_result as an UPDATE that also clears the removed flag.
update_mount_result_revives(s, devnode, mount_path, uuid) ==
    [i \in DOMAIN s |->
        IF s[i].devnode = devnode /\ s[i].uuid = uuid
        THEN [s[i] EXCEPT !.mount_success = 1, !.mount_path = mount_path,
                          !.removed = 0]
        ELSE s[i]]

\* update_mount_result as an UPDATE of the mount_success column alone.
update_mount_result_flag_only(s, devnode, mount_path, uuid) ==
    [i \in DOMAIN s |->
        IF s[i].devnode = devnode /\ s[i].uuid = uuid
        THEN [s[i] EXCEPT !.mount_success = 1]
        ELSE s[i]]

\* DeviceRepoImpl::update_mount_result: UPDATE ... WHERE devnode = ? AND uuid = ?.
update_mount_result(s, devnode, mount_path, uuid) ==
    [i \in DOMAIN s |->
        IF s[i].devnode = devnode /\ s[i].uuid = uuid
        THEN [s[i] EXCEPT !.mount_success = 1, !.mount_path = mount_path]
        ELSE s[i]]

\* DeviceRepoImpl::mark_mounted_existing delegates to update_mount_result.
mark_mounted_existing(s, devnode, mount_path, uuid) ==
    update_mount_result(s, devnode, mount_path, uuid)

\* The admission action (spec section 3 and 9): sets joined on the record of
\* a uuid; it lives outside the event and reconciliation drivers.
set_joined(s, uuid) ==
    [i \in DOMAIN s |->
        IF s[i].uuid = uuid THEN [s[i] EXCEPT !.joined = 1] ELSE s[i]]

\* ------------------------------------------------------------- OS helpers

\* str::starts_with on the devnode part of a /proc/mounts line.
StartsWith(line, devnode) ==
    LET l == Chars(line)
        d == Chars(devnode)
    IN  Len(d) <= Len(l) /\ SubSeq(l, 1, Len(d)) = d

\* Mounter::is_mounted: any line of /proc/mounts starts with the devnode.
is_mounted(m, devnode) == \E l \in m : StartsWith(l.dev, devnode)

\* pick_mount_path that joins one directory name for every uuid.
pick_mount_path_shared(uuid) == <<StorageRoot, "data">>

\* Mounter::pick_mount_path with Some(uuid): storage_root.join(uuid).
pick_mount_path(uuid) == <<StorageRoot, uuid>>

Whitespace == {" ", "\n"}

\* str::trim on the stdout of blkid, a sequence of characters.
RECURSIVE TrimStart(_)
TrimStart(t) ==
    IF t # <<>> /\ Head(t) \in Whitespace THEN TrimStart(Tail(t)) ELSE t

RECURSIVE TrimEnd(_)
TrimEnd(t) ==
    IF t # <<>> /\ t[Len(t)] \in Whitespace
    THEN TrimEnd(SubSeq(t, 1, Len(t) - 1)) ELSE t

Trim(t) == TrimEnd(TrimStart(t))

\* the characters of a filesystem uuid, and the uuid a text spells; the
\* empty text is the empty string.
UuidChars(u) ==
    CASE u = "U1" -> <<"U", "1">>
      [] u = "U2" -> <<"U", "2">>
      [] OTHER -> <<>>

UuidText(t) ==
    IF \E u \in UUIDs : UuidChars(u) = t
    THEN CHOOSE u \in UUIDs : UuidChars(u) = t
    ELSE ""

\* what `blkid -s UUID -o value <devnode>` can answer: the command could not
\* be run, or it ran with an exit status and an output.
BlkidOutputs ==
    {[spawned |-> FALSE, success |-> FALSE, stdout |-> <<>>],
     [spawned |-> TRUE, success |-> FALSE, stdout |-> <<>>],
     [spawned |-> TRUE, success |-> TRUE, stdout |-> <<>>],
     [spawned |-> TRUE, success |-> TRUE, stdout |-> <<" ", "\n">>]} \cup
    {[spawned |-> TRUE, success |-> TRUE, stdout |-> UuidChars(u) \o <<"\n">>] : u \in UUIDs}

\* fetch_uuid without the test for an empty output.
fetch_uuid_keeps_empty(out) ==
    IF ~out.spawned THEN NULL
    ELSE IF out.success THEN UuidText(Trim(out.stdout))
    ELSE NULL

\* Mounter::fetch_uuid: Some(trimmed output) when blkid ran, succeeded and
\* printed something other than whitespace, else None.
fetch_uuid(out) ==
    IF ~out.spawned THEN NULL
    ELSE IF out.success /\ Trim(out.stdout) # <<>> THEN UuidText(Trim(out.stdout))
    ELSE NULL

\* ------------------------------------------------------------------ state

VARIABLES
    store,      \* the devices table, a sequence of rows in rowid order
    mounts,     \* /proc/mounts: a set of [dev, path] lines
    tpc,        \* reconciliation thread: "sleep" | "loop" | "mount" | "persist"
    rows,       \* the rows of the current pass still to be processed
    tgt,        \* the mount result about to be persisted, or NULL fields
    epc,        \* event thread: "poll" | "mark"
    edev,       \* devnode of the remove event being handled, or NULL
    lastEvent,  \* history: kind of the last event applied to each uuid
    nev,        \* number of events handled
    ntick,      \* number of reconciliation passes started
    txLock,     \* holder of the database write lock, or NULL
    cpc,        \* per repo caller: "idle" | "call" | "begun" | "updated"
    carg,       \* per repo caller: the arguments of its upsert_device call
    cupd,       \* per repo caller: rows its UPDATE statement changed
    ncall,      \* number of repo calls issued by the callers
    upserted,   \* history: uuids of which an upsert_device call committed
    flagGiven,  \* dev-mounter: whether --auto-format was on the command line
    auto_format,\* dev-mounter: Args::auto_format
    disk,       \* dev-mounter: per devnode, the filesystem on the device
    dirs,       \* dev-mounter: the disk<n> directories under the storage root
    formatted,  \* history: devnodes mkfs.ext4 was run on
    lastEnsure, \* dev-mounter: the ensure_filesystem call just made, or NoEnsure
    cache,      \* DeviceUuidCache::inner: None, or Some((uuids, ts))
    ttl,        \* DeviceUuidCache::ttl, in seconds
    now,        \* the monotonic clock, in seconds
    rpc,        \* per request: "idle" | "start" | "fetch" | "write"
    rloc,       \* per request: the snapshot age it saw and the rows it fetched
    lastRes,    \* history: the last answer get_or_fetch gave
    segA,       \* resolve_path: the device_uuid argument, a sequence of chars
    segB,       \* resolve_path: the object_key argument, a sequence of chars
    pres,       \* resolve_path: the result of the call, or NoPath
    fsfiles,    \* the files under the storage root: a set of [path, bytes]
    fsdirs,     \* the directories under the storage root: a set of paths
    nextId,     \* number of Uuid::new_v4() values drawn so far
    ws,         \* the write_stream call in progress: its position and locals
    wsRes,      \* the result of the last write_stream call
    up,         \* the upload request in progress: its position and locals
    upResp,     \* the response to the last upload request
    lastRead,   \* the result of the last read_all or open_reader call
    lastDel,    \* the result of the last delete call
    requested,  \* history: the [path, bytes] given to write_stream and upload
    nfs,        \* number of write_stream calls and upload requests started
    lastOp,     \* history: the last storage call started and its arguments
    filesTable, \* the files table, a sequence of rows in rowid order
    df,         \* the DELETE /files/{key} request in progress
    http        \* the last answer to a GET or DELETE /files/{key} request

lifeVars == <<mounts, tpc, rows, tgt, epc, edev, lastEvent, nev, ntick>>

txVars == <<txLock, cpc, carg, cupd, ncall, upserted>>

devVars == <<flagGiven, auto_format, disk, dirs, formatted, lastEnsure>>

cacheVars == <<cache, ttl, now, rpc, rloc, lastRes>>

pathVars == <<segA, segB, pres>>

fsVars == <<fsfiles, fsdirs, nextId, ws, wsRes, up, upResp, lastRead, lastDel,
            requested, nfs, lastOp>>

httpVars == <<filesTable, df, http>>

vars == <<store, lifeVars, txVars, devVars, cacheVars, pathVars, fsVars, httpVars>>

\* an empty devices table.
StoreInit == store = <<>>

\* Mounter::new: nothing mounted, both drivers between operations.
LifeInit ==
    /\ mounts = {}
    /\ tpc = "sleep"
    /\ rows = <<>>
    /\ tgt = [devnode |-> NULL, path |-> <<>>, uuid |-> NULL]
    /\ epc = "poll"
    /\ edev = NULL
    /\ lastEvent = [u \in UUIDs |-> "none"]
    /\ nev = 0
    /\ ntick = 0

\* no repo call in progress, the write lock free.
TxInit ==
    /\ txLock = NULL
    /\ cpc = [c \in Callers |-> "idle"]
    /\ carg = [c \in Callers |-> NULL]
    /\ cupd = [c \in Callers |-> 0]
    /\ ncall = 0
    /\ upserted = {}

\* no ensure_filesystem call is under way.
NoEnsure == [dev |-> NULL, probed |-> FALSE, hadFs |-> FALSE,
             ran |-> FALSE, warn |-> FALSE]

\* Args::auto_format, #[arg(long, default_value_t = false)].
DefaultAutoFormat == FALSE

\* the dev-mounter binary is not running: its flag at the default, no
\* device formatted, no probe made.
DevInit ==
    /\ flagGiven = FALSE
    /\ auto_format = DefaultAutoFormat
    /\ disk = [d \in Devnodes |-> "none"]
    /\ dirs = {}
    /\ formatted = {}
    /\ lastEnsure = NoEnsure

\* RwLock::new(None).
NoSnapshot == [filled |-> FALSE, uuids |-> <<>>, ts |-> 0]

\* a request that has read no snapshot and fetched no rows.
NoSeen == 0 - 1

NoLocals == [seen |-> NoSeen, cands |-> <<>>]

NoAnswer == [kind |-> "none", uuid |-> NULL, age |-> 0]

\* run, lines 263-265: Duration::from_secs(device_cache_ttl_secs.max(1)).
TtlOf(secs) == IF secs >= 1 THEN secs ELSE 1

\* DeviceUuidCache::new: an empty cache, no request in progress.
CacheInit ==
    /\ cache = NoSnapshot
    /\ ttl = TtlOf(0)
    /\ now = 0
    /\ rpc = [c \in Callers |-> "idle"]
    /\ rloc = [c \in Callers |-> NoLocals]
    /\ lastRes = NoAnswer

\* resolve_path has not been called.
NoPath == [kind |-> "none", path |-> <<>>]

PathInit ==
    /\ segA = <<>>
    /\ segB = <<>>
    /\ pres = NoPath

\* no write_stream call and no upload request is under way.
NoTask == [pc |-> "idle", shard |-> <<>>, key |-> <<>>, rest |-> <<>>,
           total |-> 0, tmp |-> <<>>, final |-> <<>>, werr |-> FALSE]

NoOp == [op |-> "none", shard |-> <<>>, key |-> <<>>]

NoWritten == [kind |-> "none", path |-> <<>>, total |-> 0]

NoBytes == [kind |-> "none", bytes |-> <<>>]

\* StorageImpl::new on an empty storage root, and an empty files table; no
\* DELETE request is under way and no GET or DELETE was answered.
FsInit ==
    /\ fsfiles = {}
    /\ fsdirs = {}
    /\ nextId = 0
    /\ ws = NoTask
    /\ wsRes = NoWritten
    /\ up = NoTask
    /\ upResp = 0
    /\ lastRead = NoBytes
    /\ lastDel = "none"
    /\ requested = {}
    /\ nfs = 0
    /\ lastOp = NoOp
    /\ filesTable = <<>>
    /\ df = [pc |-> "idle", key |-> <<>>, path |-> <<>>]
    /\ http = [op |-> "none", key |-> <<>>, status |-> 0]

Init == StoreInit /\ LifeInit /\ TxInit /\ DevInit /\ CacheInit /\ PathInit /\ FsInit

\* steps of the lifecycle controller leave the other components alone.
LifeOnly == UNCHANGED <<txVars, devVars, cacheVars, pathVars, fsVars, httpVars>>

\* ------------------------------------------------------------ event path

\* uuids of the records a remove event for devnode applies to.
UuidsAt(s, devnode) ==
    {s[i].uuid : i \in {j \in DOMAIN s : s[j].devnode = devnode}} \ {NULL}

\* kind recorded for an add applied to uuid: "readd" when it revives a record
\* that was marked removed, "add" otherwise.
AddKind(s, uuid) ==
    IF \E i \in DOMAIN s : s[i].uuid = uuid /\ s[i].removed = 1
    THEN "readd" ELSE "add"

\* what fetch_uuid answers an add event, over every output of blkid.
Probes == {fetch_uuid(out) : out \in BlkidOutputs}

\* EventType::Add -> Mounter::upsert_device: probe the uuid with blkid; when
\* it resolves, upsert; when it does not, do nothing and report success.
\* `probe` is the result of fetch_uuid, `ok` whether the store call succeeds.
\* add_event is the effect on the store and the result of the handler.
add_event(s, devnode, probe, ts, ok) ==
    IF probe = NULL THEN [store |-> s, ret |-> "ok"]
    ELSE IF ok THEN [store |-> upsert_device(s, devnode, probe, ts), ret |-> "ok"]
    ELSE [store |-> s, ret |-> "err"]

EventAdd(devnode, probe, ts, ok) ==
    /\ LifeOnly
    /\ epc = "poll"
    /\ nev < MaxEvents
    /\ Len(store) < MaxRows
    /\ nev' = nev + 1
    /\ store' = add_event(store, devnode, probe, ts, ok).store
    /\ IF probe # NULL /\ ok
       THEN lastEvent' = [lastEvent EXCEPT ![probe] = AddKind(store, probe)]
       ELSE UNCHANGED lastEvent
    /\ UNCHANGED <<mounts, tpc, rows, tgt, epc, edev, ntick>>

\* Mounter::mark_removed where a failed umount returns before the store
\* call.
remove_event_fatal(s, m, devnode, uok, ts, ok) ==
    IF is_mounted(m, devnode) /\ ~uok
    THEN [umount |-> TRUE, mounts |-> m, store |-> s, ret |-> "err"]
    ELSE [umount |-> is_mounted(m, devnode),
          mounts |-> IF is_mounted(m, devnode)
                     THEN {l \in m : l.dev # devnode} ELSE m,
          store |-> IF ok THEN mark_removed(s, devnode, ts) ELSE s,
          ret |-> IF ok THEN "ok" ELSE "err"]

\* EventType::Remove -> Mounter::mark_removed as a whole: whether umount is
\* run, the mount table after it (`uok` is its outcome), the store after
\* repo.mark_removed (`ok` is whether that call succeeds) and the result.
remove_event(s, m, devnode, uok, ts, ok) ==
    [umount |-> is_mounted(m, devnode),
     mounts |-> IF is_mounted(m, devnode) /\ uok
                THEN {l \in m : l.dev # devnode} ELSE m,
     store |-> IF ok THEN mark_removed(s, devnode, ts) ELSE s,
     ret |-> IF ok THEN "ok" ELSE "err"]

\* EventType::Remove -> Mounter::mark_removed, first half: if the devnode is
\* in the mount table, run umount (best effort; `uok` is its outcome).
EventRemoveUmount(devnode, uok) ==
    /\ LifeOnly
    /\ epc = "poll"
    /\ nev < MaxEvents
    /\ nev' = nev + 1
    /\ mounts' = remove_event(store, mounts, devnode, uok, 1, TRUE).mounts
    /\ epc' = "mark"
    /\ edev' = devnode
    /\ UNCHANGED <<store, tpc, rows, tgt, lastEvent, ntick>>

\* Mounter::mark_removed, second half: repo.mark_removed(devnode, now).
EventRemoveMark(ts, ok) ==
    /\ LifeOnly
    /\ epc = "mark"
    /\ IF ok
       THEN /\ store' = remove_event(store, mounts, edev, TRUE, ts, ok).store
            /\ lastEvent' = [u \in UUIDs |->
                               IF u \in UuidsAt(store, edev)
                               THEN "remove" ELSE lastEvent[u]]
       ELSE UNCHANGED <<store, lastEvent>>
    /\ epc' = "poll"
    /\ edev' = NULL
    /\ UNCHANGED <<mounts, tpc, rows, tgt, nev, ntick>>

\* The administrative admission of a known uuid.
Admit(uuid) ==
    /\ LifeOnly
    /\ \E i \in DOMAIN store : store[i].uuid = uuid /\ store[i].joined = 0
    /\ store' = set_joined(store, uuid)
    /\ UNCHANGED <<mounts, tpc, rows, tgt, epc, edev, lastEvent, nev, ntick>>

\* ------------------------------------------------------ reconciliation

\* Mounter::process_pending, line 113: read the mount candidates.
TickList(ok) ==
    /\ LifeOnly
    /\ tpc = "sleep"
    /\ ntick < MaxTicks
    /\ ntick' = ntick + 1
    /\ IF ok
       THEN /\ rows' = list_joined_active(store)
            /\ tpc' = "loop"
       ELSE UNCHANGED <<rows, tpc>>
    /\ UNCHANGED <<store, mounts, tgt, epc, edev, lastEvent, nev>>

\* a target derived from the devnode instead.
TargetOfDevnode(row) == <<StorageRoot, row.devnode>>

\* the target of the row at the head of the pass: its recorded mount_path,
\* else the uuid-named directory under the storage root.
TargetOf(row) ==
    IF row.mount_path # NULL THEN row.mount_path ELSE pick_mount_path(row.uuid)

\* the skip test without the steady-state case of line 122.
SkipsRowNoSteady(row, m) == row.uuid = NULL \/ row.uuid = ""

\* the row is skipped: no usable uuid, or already mounted and recorded so.
SkipsRow(row, m) ==
    \/ row.uuid = NULL
    \/ row.uuid = ""
    \/ (row.mount_success = 1 /\ is_mounted(m, row.devnode))

\* the row is found mounted although not recorded so: only persist.
FoundMounted(row, m) == ~SkipsRow(row, m) /\ is_mounted(m, row.devnode)

\* the mount command invoked for every row that is not skipped.
InvokesMountAlways(row, m) == ~SkipsRow(row, m)

\* the mount command is invoked for the row.
InvokesMount(row, m) == ~SkipsRow(row, m) /\ ~is_mounted(m, row.devnode)

\* process_pending, lines 114-129: skip the row.
TickSkip ==
    /\ LifeOnly
    /\ tpc = "loop"
    /\ rows # <<>>
    /\ SkipsRow(Head(rows), mounts)
    /\ rows' = Tail(rows)
    /\ UNCHANGED <<store, mounts, tpc, tgt, epc, edev, lastEvent, nev, ntick>>

\* process_pending, lines 130-142: the OS already shows the devnode mounted.
TickFoundMounted ==
    /\ LifeOnly
    /\ tpc = "loop"
    /\ rows # <<>>
    /\ FoundMounted(Head(rows), mounts)
    /\ tgt' = [devnode |-> Head(rows).devnode, path |-> TargetOf(Head(rows)),
               uuid |-> Head(rows).uuid]
    /\ tpc' = "persist"
    /\ UNCHANGED <<store, mounts, rows, epc, edev, lastEvent, nev, ntick>>

\* the mount step in a pass that a failed mount ends.
TickMountGivesUp(mok) ==
    /\ LifeOnly
    /\ tpc = "loop"
    /\ rows # <<>>
    /\ InvokesMount(Head(rows), mounts)
    /\ IF mok
       THEN /\ mounts' = mounts \cup
                   {[dev |-> Head(rows).devnode, path |-> TargetOf(Head(rows))]}
            /\ tgt' = [devnode |-> Head(rows).devnode,
                       path |-> TargetOf(Head(rows)), uuid |-> Head(rows).uuid]
            /\ tpc' = "persist"
            /\ UNCHANGED rows
       ELSE /\ rows' = <<>>
            /\ tpc' = "sleep"
            /\ UNCHANGED <<mounts, tgt>>
    /\ UNCHANGED <<store, epc, edev, lastEvent, nev, ntick>>

\* process_pending, lines 143-154: run mount; `mok` is its outcome.
TickMount(mok) ==
    /\ LifeOnly
    /\ tpc = "loop"
    /\ rows # <<>>
    /\ InvokesMount(Head(rows), mounts)
    /\ IF mok
       THEN /\ mounts' = mounts \cup
                   {[dev |-> Head(rows).devnode, path |-> TargetOf(Head(rows))]}
            /\ tgt' = [devnode |-> Head(rows).devnode,
                       path |-> TargetOf(Head(rows)), uuid |-> Head(rows).uuid]
            /\ tpc' = "persist"
            /\ UNCHANGED rows
       ELSE /\ rows' = Tail(rows)
            /\ UNCHANGED <<mounts, tgt, tpc>>
    /\ UNCHANGED <<store, epc, edev, lastEvent, nev, ntick>>

\* the persist step in a scheduler whose thread ends on a store error.
TickPersistStops(ok) ==
    /\ LifeOnly
    /\ tpc = "persist"
    /\ IF ok
       THEN /\ store' = update_mount_result(store, tgt.devnode, tgt.path, tgt.uuid)
            /\ rows' = Tail(rows)
            /\ tpc' = "loop"
       ELSE /\ rows' = <<>>
            /\ tpc' = "stopped"
            /\ UNCHANGED store
    /\ tgt' = [devnode |-> NULL, path |-> <<>>, uuid |-> NULL]
    /\ UNCHANGED <<mounts, epc, edev, lastEvent, nev, ntick>>

\* process_pending, lines 136-140 and 146-150: persist the mount result; a
\* store error ends the pass.
TickPersist(ok) ==
    /\ LifeOnly
    /\ tpc = "persist"
    /\ IF ok
       THEN /\ store' = update_mount_result(store, tgt.devnode, tgt.path, tgt.uuid)
            /\ rows' = Tail(rows)
            /\ tpc' = "loop"
       ELSE /\ rows' = <<>>
            /\ tpc' = "sleep"
            /\ UNCHANGED store
    /\ tgt' = [devnode |-> NULL, path |-> <<>>, uuid |-> NULL]
    /\ UNCHANGED <<mounts, epc, edev, lastEvent, nev, ntick>>

\* process_pending, line 156: the pass is over; the scheduler sleeps.
TickDone ==
    /\ LifeOnly
    /\ tpc = "loop"
    /\ rows = <<>>
    /\ tpc' = "sleep"
    /\ UNCHANGED <<store, mounts, rows, tgt, epc, edev, lastEvent, nev, ntick>>

\* ---------------------------------------------------------- specification

Next ==
    \/ \E d \in Devnodes, probe \in Probes, ts \in Timestamps, ok \in BOOLEAN :
           EventAdd(d, probe, ts, ok)
    \/ \E d \in Devnodes, uok \in BOOLEAN : EventRemoveUmount(d, uok)
    \/ \E ts \in Timestamps, ok \in BOOLEAN : EventRemoveMark(ts, ok)
    \/ \E u \in UUIDs : Admit(u)
    \/ \E ok \in BOOLEAN : TickList(ok)
    \/ TickSkip
    \/ TickFoundMounted
    \/ \E mok \in BOOLEAN : TickMount(mok)
    \/ \E ok \in BOOLEAN : TickPersist(ok)
    \/ TickDone

Spec == Init /\ [][Next]_vars

\* the filesystem a devnode carries while its device stays plugged in.
PresentUuid(devnode) == IF devnode = "/dev/sdb" THEN "U1" ELSE "U2"

\* the drivers while every device stays present and the mount command and
\* the store calls of a pass work: add events (whose probe resolves to the
\* device's uuid or not at all, and whose store call may fail), admissions,
\* and the passes the scheduler starts every interval.
NextScenario ==
    \/ \E d \in Devnodes, probe \in Probes, ts \in Timestamps, ok \in BOOLEAN :
           /\ probe \in {NULL, PresentUuid(d)}
           /\ EventAdd(d, probe, ts, ok)
    \/ \E u \in UUIDs : Admit(u)
    \/ TickList(TRUE)
    \/ TickSkip
    \/ TickMount(TRUE)
    \/ TickPersist(TRUE)
    \/ TickDone

\* start_scheduler runs process_pending every interval, and a pass runs to
\* its end; each of these steps changes tpc, rows or ntick.
TickStep ==
    TickList(TRUE) \/ TickSkip \/ TickMount(TRUE) \/ TickPersist(TRUE) \/ TickDone

\* the drivers at one devnode, every step with every outcome.
NextDrivers ==
    \/ \E probe \in Probes, ok \in BOOLEAN : EventAdd("/dev/sdb", probe, 1, ok)
    \/ \E uok \in BOOLEAN : EventRemoveUmount("/dev/sdb", uok)
    \/ \E ok \in BOOLEAN : EventRemoveMark(1, ok)
    \/ \E u \in UUIDs : Admit(u)
    \/ \E ok \in BOOLEAN : TickList(ok)
    \/ TickSkip
    \/ TickFoundMounted
    \/ \E mok \in BOOLEAN : TickMount(mok)
    \/ \E ok \in BOOLEAN : TickPersist(ok)
    \/ TickDone

\* the thread of start_scheduler takes its next step whatever the outcome,
\* and so does the handler of a remove event in run_udev_loop.
TickAny ==
    \/ \E ok \in BOOLEAN : TickList(ok)
    \/ TickSkip
    \/ TickFoundMounted
    \/ \E mok \in BOOLEAN : TickMount(mok)
    \/ \E ok \in BOOLEAN : TickPersist(ok)
    \/ TickDone

SpecDrivers ==
    /\ Init
    /\ [][NextDrivers]_vars
    /\ WF_<<tpc, rows, ntick>>(TickAny)
    /\ WF_epc(\E ok \in BOOLEAN : EventRemoveMark(1, ok))

SpecScenario == Init /\ [][NextScenario]_vars /\ WF_<<tpc, rows, ntick>>(TickStep)

\* ------------------------------------- the repo under concurrent callers

\* steps of the repo callers leave the lifecycle controller alone.
TxOnly == UNCHANGED <<lifeVars, devVars, cacheVars, pathVars, fsVars, httpVars>>

\* a BEGIN that takes no write lock: the statements of two callers interleave.
CanBeginUnlocked(lock) == TRUE

\* conn.immediate_transaction: BEGIN IMMEDIATE takes the database write lock
\* and is refused while another connection holds it.
CanBegin(lock) == lock = NULL

\* a caller enters DeviceRepoImpl::upsert_device(devnode, uuid, ts).
TxCall(c, devnode, uuid, ts) ==
    /\ TxOnly
    /\ cpc[c] = "idle"
    /\ ncall < MaxCalls
    /\ ncall' = ncall + 1
    /\ cpc' = [cpc EXCEPT ![c] = "call"]
    /\ carg' = [carg EXCEPT ![c] = [devnode |-> devnode, uuid |-> uuid, ts |-> ts]]
    /\ UNCHANGED <<store, txLock, cupd, upserted>>

\* upsert_device, line 32: the transaction begins and holds the write lock.
TxBegin(c) ==
    /\ TxOnly
    /\ cpc[c] = "call"
    /\ CanBegin(txLock)
    /\ txLock' = c
    /\ cpc' = [cpc EXCEPT ![c] = "begun"]
    /\ UNCHANGED <<store, carg, cupd, ncall, upserted>>

\* upsert_device, line 32: the lock is held by another connection and the
\* call fails with a store error (database is locked).
TxBusy(c) ==
    /\ TxOnly
    /\ cpc[c] = "call"
    /\ txLock \notin {NULL, c}
    /\ cpc' = [cpc EXCEPT ![c] = "idle"]
    /\ carg' = [carg EXCEPT ![c] = NULL]
    /\ UNCHANGED <<store, txLock, cupd, ncall, upserted>>

\* upsert_device, lines 33-39: the UPDATE statement.
TxUpdate(c) ==
    /\ TxOnly
    /\ cpc[c] = "begun"
    /\ store' = UpsertUpdate(store, carg[c].devnode, carg[c].uuid, carg[c].ts)
    /\ cupd' = [cupd EXCEPT ![c] = Cardinality(RowsUpdated(store, carg[c].uuid))]
    /\ cpc' = [cpc EXCEPT ![c] = "updated"]
    /\ UNCHANGED <<txLock, carg, ncall, upserted>>

\* upsert_device, lines 40-54: INSERT when the UPDATE changed no row, then
\* commit, which releases the write lock.
TxInsertCommit(c) ==
    /\ TxOnly
    /\ cpc[c] = "updated"
    /\ Len(store) < MaxRows
    /\ store' = IF cupd[c] = 0
                 THEN UpsertInsert(store, carg[c].devnode, carg[c].uuid, carg[c].ts)
                 ELSE store
    /\ upserted' = upserted \cup {carg[c].uuid}
    /\ txLock' = IF txLock = c THEN NULL ELSE txLock
    /\ cpc' = [cpc EXCEPT ![c] = "idle"]
    /\ carg' = [carg EXCEPT ![c] = NULL]
    /\ cupd' = [cupd EXCEPT ![c] = 0]
    /\ UNCHANGED ncall

\* a caller runs DeviceRepoImpl::mark_removed, a single statement, which
\* needs the write lock for its duration.
TxMarkRemoved(c, devnode, ts) ==
    /\ TxOnly
    /\ cpc[c] = "idle"
    /\ ncall < MaxCalls
    /\ txLock = NULL
    /\ ncall' = ncall + 1
    /\ store' = mark_removed(store, devnode, ts)
    /\ UNCHANGED <<txLock, cpc, carg, cupd, upserted>>

NextTx ==
    \/ \E c \in Callers, d \in Devnodes, u \in UUIDs, ts \in Timestamps :
           TxCall(c, d, u, ts)
    \/ \E c \in Callers : TxBegin(c)
    \/ \E c \in Callers : TxBusy(c)
    \/ \E c \in Callers : TxUpdate(c)
    \/ \E c \in Callers : TxInsertCommit(c)
    \/ \E c \in Callers, d \in Devnodes, ts \in Timestamps :
           TxMarkRemoved(c, d, ts)

\* the repo called through two pooled connections at once.
SpecTx == Init /\ [][NextTx]_vars

\* --------------------------------------------- the dev-mounter binary

\* steps of the dev-mounter binary leave the repo callers alone.
DevOnly == UNCHANGED <<txVars, lastEvent, cacheVars, pathVars, fsVars, httpVars>>

\* the filesystem uuid blkid reports for the device at a devnode.
DevUuid(devnode) == IF devnode = "/dev/sdb" THEN "U1" ELSE "U2"

\* now_ts() as the binary's events observe it.
DevTimestamps == {1}

\* main, line 266: only /dev/sd* devices are handled.
StartsWithSd(devnode) ==
    Len(Chars(devnode)) >= 2 /\ SubSeq(Chars(devnode), 1, 2) = <<"s", "d">>

\* what `blkid -s TYPE -o value <devnode>` can answer: the command could not
\* be run, or it ran with an exit status and an output; it names a type only
\* for a device that carries a filesystem.
Stdouts == {<<>>, <<"\n">>, <<"e", "x", "t", "4", "\n">>}

TypeProbes(fs) ==
    {[spawned |-> FALSE, success |-> FALSE, stdout |-> <<>>]} \cup
    {[spawned |-> TRUE, success |-> b, stdout |-> o] :
        b \in BOOLEAN, o \in {x \in Stdouts : Trim(x) # <<>> => fs # "none"}}

\* ensure_filesystem, line 131: the probe reports an existing filesystem.
ProbeHasFs(probe) == probe.success /\ Trim(probe.stdout) # <<>>

MkfsOutcomes == {"ok", "failed", "not_run"}

\* ensure_filesystem with the auto_format test left out.
ensure_filesystem_unguarded(probe, af, mkfs) ==
    IF ~probe.spawned
    THEN [ret |-> "err", ran |-> FALSE, warn |-> FALSE]
    ELSE IF ProbeHasFs(probe)
    THEN [ret |-> "ok_false", ran |-> FALSE, warn |-> FALSE]
    ELSE [ret |-> IF mkfs = "ok" THEN "ok_true" ELSE "err",
          ran |-> mkfs # "not_run", warn |-> FALSE]

\* ensure_filesystem(devnode, auto_format): ret is its result, ran whether
\* mkfs.ext4 was executed, warn whether the auto_format warning was logged.
\* `mkfs` is the outcome of the mkfs.ext4 command when it is invoked.
ensure_filesystem(probe, af, mkfs) ==
    IF ~probe.spawned
    THEN [ret |-> "err", ran |-> FALSE, warn |-> FALSE]
    ELSE IF ProbeHasFs(probe)
    THEN [ret |-> "ok_false", ran |-> FALSE, warn |-> FALSE]
    ELSE IF ~af
    THEN [ret |-> "ok_false", ran |-> FALSE, warn |-> TRUE]
    ELSE [ret |-> IF mkfs = "ok" THEN "ok_true" ELSE "err",
          ran |-> mkfs # "not_run", warn |-> FALSE]

\* upsert_add: INSERT ... ON CONFLICT(devnode) DO UPDATE SET removed = 0,
\* last_seen, uuid = COALESCE(excluded.uuid, devices.uuid).
dev_upsert_add(s, devnode, uuid, ts) ==
    IF \E i \in DOMAIN s : s[i].devnode = devnode
    THEN [i \in DOMAIN s |->
             IF s[i].devnode = devnode
             THEN [s[i] EXCEPT !.removed = 0, !.last_seen = ts,
                       !.uuid = IF uuid # NULL THEN uuid ELSE s[i].uuid]
             ELSE s[i]]
    ELSE Append(s, NewDevice(devnode, uuid, ts))

\* mark_removed, lines 108-111: UPDATE ... WHERE devnode = ?.
dev_mark_removed(s, devnode, ts) ==
    [i \in DOMAIN s |->
        IF s[i].devnode = devnode
        THEN [s[i] EXCEPT !.removed = 1, !.mount_success = 0, !.last_seen = ts]
        ELSE s[i]]

\* process_pending, line 171: SELECT ... FROM devices WHERE removed = 0.
DevPendingFilter(r) == r.removed = 0

dev_list_pending(s) ==
    LET kept == SelectSeq(s, DevPendingFilter)
    IN  [i \in 1..Len(kept) |-> DeviceMountRow(kept[i])]

\* process_pending, lines 199 and 205: UPDATE devices SET mount_success = 1,
\* mount_path, uuid = COALESCE(?, uuid) WHERE devnode = ?.
dev_update_mount(s, devnode, mount_path, uuid) ==
    [i \in DOMAIN s |->
        IF s[i].devnode = devnode
        THEN [s[i] EXCEPT !.mount_success = 1, !.mount_path = mount_path,
                  !.uuid = IF uuid # NULL THEN uuid ELSE s[i].uuid]
        ELSE s[i]]

\* format!("disk{}", n) for the values of n the model reaches.
DiskName(n) ==
    CASE n = 1 -> "disk1" [] n = 2 -> "disk2" [] n = 3 -> "disk3"
      [] n = 4 -> "disk4" [] n = 5 -> "disk5" [] n = 6 -> "disk6"
      [] n = 7 -> "disk7" [] n = 8 -> "disk8" [] OTHER -> "disk9"

\* the directories pick_mount_path tests for existence; mount_device creates
\* its target with create_dir_all.
DiskDirs == {<<StorageRoot, DiskName(n)>> : n \in 1..9}

\* pick_mount_path of the binary: the uuid-named directory, else the first
\* disk<n> that does not exist yet.
RECURSIVE FirstFreeDisk(_, _)
FirstFreeDisk(existing, n) ==
    IF <<StorageRoot, DiskName(n)>> \in existing /\ n < 9
    THEN FirstFreeDisk(existing, n + 1) ELSE n

dev_pick_mount_path(existing, uuid) ==
    IF uuid # NULL THEN <<StorageRoot, uuid>>
    ELSE <<StorageRoot, DiskName(FirstFreeDisk(existing, 1))>>

\* the command line: --auto-format given or not; /dev/sdb is a blank disk,
\* /dev/sdc carries a filesystem and is in the devices table already,
\* recorded by upsert_add before the binary was last stopped.
InitDev ==
    /\ store = dev_upsert_add(<<>>, "/dev/sdc", DevUuid("/dev/sdc"), 1)
    /\ LifeInit
    /\ TxInit
    /\ CacheInit
    /\ PathInit
    /\ FsInit
    /\ flagGiven \in BOOLEAN
    /\ auto_format = (IF flagGiven THEN TRUE ELSE DefaultAutoFormat)
    /\ disk = [d \in Devnodes |-> IF d = "/dev/sdb" THEN "none" ELSE "ext4"]
    /\ dirs = {}
    /\ formatted = {}
    /\ lastEnsure = NoEnsure

\* main, lines 263-277: an add event; upsert_add probes the uuid and records
\* the device whether or not the probe resolved.
DevEventAdd(devnode, probe, ts, ok) ==
    /\ DevOnly
    /\ epc = "poll"
    /\ nev < MaxDevEvents
    /\ probe \in {NULL, DevUuid(devnode)}
    /\ nev' = nev + 1
    /\ store' = IF StartsWithSd(devnode) /\ ok
                THEN dev_upsert_add(store, devnode, probe, ts)
                ELSE store
    /\ UNCHANGED <<mounts, tpc, rows, tgt, epc, edev, ntick, devVars>>

\* the mount_path and mount_success mark_removed reads for the devnode.
DevRowOf(s, devnode) == {i \in DOMAIN s : s[i].devnode = devnode}

\* main, lines 278-285, and mark_removed: a remove event; when the record
\* says mounted and the OS agrees, umount the recorded path, or the devnode
\* when no path is recorded; then the UPDATE of lines 108-111.
DevEventRemove(devnode, uok, ts, ok) ==
    /\ DevOnly
    /\ epc = "poll"
    /\ nev < MaxDevEvents
    /\ StartsWithSd(devnode)
    /\ nev' = nev + 1
    /\ mounts' =
         IF uok /\ is_mounted(mounts, devnode)
                /\ \E i \in DevRowOf(store, devnode) : store[i].mount_success = 1
         THEN LET i == CHOOSE j \in DevRowOf(store, devnode) : TRUE
              IN  IF store[i].mount_path # NULL
                  THEN {l \in mounts : l.path # store[i].mount_path}
                  ELSE {l \in mounts : l.dev # devnode}
         ELSE mounts
    /\ store' = IF ok THEN dev_mark_removed(store, devnode, ts) ELSE store
    /\ UNCHANGED <<tpc, rows, tgt, epc, edev, ntick, devVars>>

\* the administrative admission, as for the library's store.
DevAdmit(devnode) ==
    /\ DevOnly
    /\ \E i \in DevRowOf(store, devnode) : store[i].joined = 0
    /\ store' = [i \in DOMAIN store |->
                    IF store[i].devnode = devnode
                    THEN [store[i] EXCEPT !.joined = 1] ELSE store[i]]
    /\ UNCHANGED <<mounts, tpc, rows, tgt, epc, edev, nev, ntick, devVars>>

\* process_pending, lines 170-179: read the rows to process.
DevTickList(ok) ==
    /\ DevOnly
    /\ tpc = "sleep"
    /\ ntick < MaxDevTicks
    /\ ntick' = ntick + 1
    /\ IF ok
       THEN rows' = dev_list_pending(store) /\ tpc' = "loop"
       ELSE UNCHANGED <<rows, tpc>>
    /\ UNCHANGED <<store, mounts, tgt, epc, edev, nev, devVars>>

\* process_pending, lines 182-184: recorded as mounted and mounted: skip.
DevTickSkip ==
    /\ DevOnly
    /\ tpc = "loop"
    /\ rows # <<>>
    /\ Head(rows).mount_success = 1
    /\ is_mounted(mounts, Head(rows).devnode)
    /\ rows' = Tail(rows)
    /\ UNCHANGED <<store, mounts, tpc, tgt, epc, edev, nev, ntick, devVars>>

\* process_pending, lines 185-189: ensure_filesystem on the row's devnode.
DevTickEnsure(probe, mkfs) ==
    /\ DevOnly
    /\ tpc = "loop"
    /\ rows # <<>>
    /\ ~(Head(rows).mount_success = 1 /\ is_mounted(mounts, Head(rows).devnode))
    /\ probe \in TypeProbes(disk[Head(rows).devnode])
    /\ LET d == Head(rows).devnode
           r == ensure_filesystem(probe, auto_format, mkfs)
       IN  /\ formatted' = IF r.ran THEN formatted \cup {d} ELSE formatted
           /\ disk' = IF r.ran /\ mkfs = "ok"
                      THEN [disk EXCEPT ![d] = "ext4"] ELSE disk
           /\ lastEnsure' = [dev |-> d, probed |-> probe.spawned,
                             hadFs |-> ProbeHasFs(probe),
                             ran |-> r.ran, warn |-> r.warn]
    /\ tpc' = "mount"
    /\ UNCHANGED <<store, mounts, rows, tgt, epc, edev, nev, ntick,
                   flagGiven, auto_format, dirs>>

\* process_pending, lines 190-211: resolve the uuid and the target, then
\* persist when already mounted, else run mount. `uprobe` is what fetch_uuid
\* answers when the row has no uuid, `mok` the outcome of mount.
DevTickMount(uprobe, mok) ==
    /\ DevOnly
    /\ tpc = "mount"
    /\ uprobe \in {NULL, DevUuid(Head(rows).devnode)}
    /\ LET row == Head(rows)
           uuid_final == IF row.uuid # NULL THEN row.uuid ELSE uprobe
           target == IF row.mount_path # NULL THEN row.mount_path
                     ELSE dev_pick_mount_path(dirs, uuid_final)
           result == [devnode |-> row.devnode, path |-> target, uuid |-> uuid_final]
       IN  IF is_mounted(mounts, row.devnode)
           THEN /\ tgt' = result
                /\ tpc' = "persist"
                /\ UNCHANGED <<mounts, rows, dirs>>
           ELSE /\ dirs' = dirs \cup ({target} \cap DiskDirs)
                /\ IF mok
                   THEN /\ mounts' = mounts \cup {[dev |-> row.devnode, path |-> target]}
                        /\ tgt' = result
                        /\ tpc' = "persist"
                        /\ UNCHANGED rows
                   ELSE /\ rows' = Tail(rows)
                        /\ tpc' = "loop"
                        /\ UNCHANGED <<mounts, tgt>>
    /\ lastEnsure' = NoEnsure
    /\ UNCHANGED <<store, epc, edev, nev, ntick, flagGiven, auto_format, disk,
                   formatted>>

\* process_pending, lines 199 and 205: persist; a store error ends the pass.
DevTickPersist(ok) ==
    /\ DevOnly
    /\ tpc = "persist"
    /\ IF ok
       THEN /\ store' = dev_update_mount(store, tgt.devnode, tgt.path, tgt.uuid)
            /\ rows' = Tail(rows)
            /\ tpc' = "loop"
       ELSE /\ rows' = <<>>
            /\ tpc' = "sleep"
            /\ UNCHANGED store
    /\ tgt' = [devnode |-> NULL, path |-> <<>>, uuid |-> NULL]
    /\ UNCHANGED <<mounts, epc, edev, nev, ntick, devVars>>

\* process_pending, line 213: the pass is over.
DevTickDone ==
    /\ DevOnly
    /\ tpc = "loop"
    /\ rows = <<>>
    /\ tpc' = "sleep"
    /\ UNCHANGED <<store, mounts, rows, tgt, epc, edev, nev, ntick, devVars>>

NextDev ==
    \/ \E d \in DevEventNodes, p \in UUIDs \cup {NULL}, ts \in DevTimestamps, ok \in BOOLEAN :
           DevEventAdd(d, p, ts, ok)
    \/ \E d \in DevEventNodes, uok \in BOOLEAN, ts \in DevTimestamps, ok \in BOOLEAN :
           DevEventRemove(d, uok, ts, ok)
    \/ \E d \in Devnodes : DevAdmit(d)
    \/ \E ok \in BOOLEAN : DevTickList(ok)
    \/ DevTickSkip
    \/ \E probe \in TypeProbes("ext4"), mkfs \in MkfsOutcomes :
           DevTickEnsure(probe, mkfs)
    \/ \E uprobe \in UUIDs \cup {NULL}, mok \in BOOLEAN : DevTickMount(uprobe, mok)
    \/ \E ok \in BOOLEAN : DevTickPersist(ok)
    \/ DevTickDone

\* the standalone dev-mounter binary: event loop and scheduler thread.
SpecDev == InitDev /\ [][NextDev]_vars

\* the binary on a devices table two add events have filled, /dev/sdb first:
\* the probe of /dev/sdb, which carries no filesystem, resolved no uuid, and
\* the probe of /dev/sdc resolved its uuid or did not.
InitDevTable ==
    /\ store \in {dev_upsert_add(dev_upsert_add(<<>>, "/dev/sdb", NULL, 1), "/dev/sdc", p, 1) :
                     p \in {NULL, DevUuid("/dev/sdc")}}
    /\ LifeInit
    /\ TxInit
    /\ CacheInit
    /\ PathInit
    /\ FsInit
    /\ flagGiven \in BOOLEAN
    /\ auto_format = (IF flagGiven THEN TRUE ELSE DefaultAutoFormat)
    /\ disk = [d \in Devnodes |-> IF d = "/dev/sdb" THEN "none" ELSE "ext4"]
    /\ dirs = {}
    /\ formatted = {}
    /\ lastEnsure = NoEnsure

SpecDevTable == InitDevTable /\ [][NextDev]_vars

\* ------------------------------------------------- the selection cache

CacheOnly == UNCHANGED <<lifeVars, txVars, devVars, pathVars, fsVars, httpVars>>

\* the server starts on a devices table the mounter has filled: both devices
\* recorded and admitted, neither mounted yet; --device-cache-ttl-secs is any
\* value up to MaxTtlSecs.
CacheStore ==
    set_joined(set_joined(
        upsert_device(upsert_device(<<>>, "/dev/sdb", "U1", 1), "/dev/sdc", "U2", 1),
        "U1"), "U2")

InitCache ==
    /\ LifeInit
    /\ TxInit
    /\ DevInit
    /\ PathInit
    /\ FsInit
    /\ store = CacheStore
    /\ cache = NoSnapshot
    /\ ttl \in {TtlOf(secs) : secs \in 0..MaxTtlSecs}
    /\ now = 0
    /\ rpc = [c \in Callers |-> "idle"]
    /\ rloc = [c \in Callers |-> NoLocals]
    /\ lastRes = NoAnswer

\* get_or_fetch, line 52 with the TTL test left out: a snapshot never counts
\* as fresh.
FreshNever(ts, t, d) == FALSE

\* get_or_fetch, line 52: ts.elapsed() < self.ttl.
Fresh(ts, t, d) == t - ts < d

\* SystemTime::now().subsec_nanos(), as far as the index computed from it
\* can tell values apart.
Nanos == {0, 1}

\* the filter of lines 73-77 with the mount_success test left out.
CandidateFilterUnmounted(r) == r.uuid # NULL

\* get_or_fetch, lines 73-77: keep mount_success == 1, then the uuids present.
CandidateFilter(r) == r.mount_success = 1 /\ r.uuid # NULL

Candidates(rs) ==
    LET kept == SelectSeq(rs, CandidateFilter)
    IN  [i \in 1..Len(kept) |-> kept[i].uuid]

\* uuids[nanos % uuids.len()], with 0-based indexing.
PickAt(uuids, nanos) == uuids[(nanos % Len(uuids)) + 1]

\* time passes.
CacheClock ==
    /\ CacheOnly
    /\ now < MaxNow
    /\ now' = now + 1
    /\ UNCHANGED <<store, cache, ttl, rpc, rloc, lastRes>>

\* upload, lines 114-117: a request calls get_or_fetch.
SelectCall(c) ==
    /\ CacheOnly
    /\ rpc[c] = "idle"
    /\ rpc' = [rpc EXCEPT ![c] = "start"]
    /\ UNCHANGED <<store, cache, ttl, now, rloc, lastRes>>

\* get_or_fetch, lines 46-62: read the snapshot; answer from it when it is
\* fresh, else go on to the store. The value of nanos sampled at line 46 does
\* not depend on the state, so it is drawn where it is used.
SelectRead(c, nanos) ==
    /\ CacheOnly
    /\ rpc[c] = "start"
    /\ IF cache.filled /\ Fresh(cache.ts, now, ttl)
       THEN /\ lastRes' = IF cache.uuids = <<>>
                          THEN [kind |-> "unavailable_cached", uuid |-> NULL,
                                age |-> now - cache.ts]
                          ELSE [kind |-> "hit", uuid |-> PickAt(cache.uuids, nanos),
                                age |-> now - cache.ts]
            /\ rpc' = [rpc EXCEPT ![c] = "idle"]
            /\ UNCHANGED rloc
       ELSE /\ rpc' = [rpc EXCEPT ![c] = "fetch"]
            /\ rloc' = [rloc EXCEPT ![c].seen = IF cache.filled THEN cache.ts
                                                ELSE NoSeen]
            /\ UNCHANGED lastRes
    /\ UNCHANGED <<store, cache, ttl, now>>

\* get_or_fetch, lines 65-77: repo.list_joined_active() and the filter; a
\* store error is answered with 503.
SelectFetch(c, ok) ==
    /\ CacheOnly
    /\ rpc[c] = "fetch"
    /\ IF ok
       THEN /\ rloc' = [rloc EXCEPT ![c].cands = Candidates(list_joined_active(store))]
            /\ rpc' = [rpc EXCEPT ![c] = "write"]
            /\ UNCHANGED lastRes
       ELSE /\ rloc' = [rloc EXCEPT ![c] = NoLocals]
            /\ rpc' = [rpc EXCEPT ![c] = "idle"]
            /\ lastRes' = [kind |-> "store_error", uuid |-> NULL, age |-> 0]
    /\ UNCHANGED <<store, cache, ttl, now>>

\* the answer after a refresh if an empty candidate list fell back to a
\* fixed uuid.
AnswerFromDefault(cands, nanos) ==
    IF cands = <<>>
    THEN [kind |-> "refreshed", uuid |-> "U1", age |-> 0]
    ELSE [kind |-> "refreshed", uuid |-> PickAt(cands, nanos), age |-> 0]

\* get_or_fetch, lines 82-89: the answer after a refresh.
AnswerFrom(cands, nanos) ==
    IF cands = <<>>
    THEN [kind |-> "unavailable", uuid |-> NULL, age |-> 0]
    ELSE [kind |-> "refreshed", uuid |-> PickAt(cands, nanos), age |-> 0]

\* the HTTP status of an answer: ErrorServiceUnavailable is 503; an Ok(uuid)
\* lets upload go on.
StatusOf(kind) ==
    CASE kind \in {"unavailable", "unavailable_cached", "store_error"} -> 503
      [] kind \in {"hit", "refreshed"} -> 200
      [] OTHER -> 0

\* the write of lines 78-81 if it stored the list and left the timestamp of
\* the snapshot it replaces.
SelectWriteTorn(c, nanos) ==
    /\ CacheOnly
    /\ rpc[c] = "write"
    /\ cache' = [filled |-> TRUE, uuids |-> rloc[c].cands, ts |-> cache.ts]
    /\ lastRes' = AnswerFrom(rloc[c].cands, nanos)
    /\ rloc' = [rloc EXCEPT ![c] = NoLocals]
    /\ rpc' = [rpc EXCEPT ![c] = "idle"]
    /\ UNCHANGED <<store, ttl, now>>

\* get_or_fetch, lines 78-89: replace the snapshot, then answer.
SelectWrite(c, nanos) ==
    /\ CacheOnly
    /\ rpc[c] = "write"
    /\ cache' = [filled |-> TRUE, uuids |-> rloc[c].cands, ts |-> now]
    /\ lastRes' = AnswerFrom(rloc[c].cands, nanos)
    /\ rloc' = [rloc EXCEPT ![c] = NoLocals]
    /\ rpc' = [rpc EXCEPT ![c] = "idle"]
    /\ UNCHANGED <<store, ttl, now>>

\* the mounter process, meanwhile: a pass persists the mount result of a row
\* it listed as a candidate; a remove event may have been recorded since.
StoreMounted(devnode, uuid) ==
    /\ CacheOnly
    /\ \E i \in DOMAIN store :
           /\ store[i].devnode = devnode
           /\ store[i].uuid = uuid
           /\ store[i].joined = 1
           /\ store[i].mount_success = 0
    /\ store' = update_mount_result(store, devnode, pick_mount_path(uuid), uuid)
    /\ UNCHANGED cacheVars

\* the mounter process, meanwhile: a remove event is recorded.
StoreRemoved(devnode) ==
    /\ CacheOnly
    /\ \E i \in DOMAIN store : store[i].devnode = devnode /\ store[i].removed = 0
    /\ store' = mark_removed(store, devnode, 1)
    /\ UNCHANGED cacheVars

\* the mounter process, meanwhile: an add event is recorded.
StoreAdded(devnode, uuid) ==
    /\ CacheOnly
    /\ \E i \in DOMAIN store :
           store[i].devnode = devnode /\ store[i].uuid = uuid /\ store[i].removed = 1
    /\ store' = upsert_device(store, devnode, uuid, 1)
    /\ UNCHANGED cacheVars

NextCache ==
    \/ CacheClock
    \/ \E c \in Callers : SelectCall(c)
    \/ \E c \in Callers, nanos \in Nanos : SelectRead(c, nanos)
    \/ \E c \in Callers, ok \in BOOLEAN : SelectFetch(c, ok)
    \/ \E c \in Callers, nanos \in Nanos : SelectWrite(c, nanos)
    \/ \E d \in Devnodes, u \in UUIDs : StoreMounted(d, u)
    \/ \E d \in Devnodes : StoreRemoved(d)
    \/ \E d \in Devnodes, u \in UUIDs : StoreAdded(d, u)

\* the api-server's selection cache beside a running mounter.
SpecCache == InitCache /\ [][NextCache]_vars

\* ---------------------------------------------------- the placement layer

\* the characters segments are built from: a plain one, the dot and the two
\* separators.
SegChars == {"a", ".", "/", "\\"}

RECURSIVE SeqsUpTo(_, _)
SeqsUpTo(S, n) ==
    IF n = 0 THEN {<<>>}
    ELSE LET shorter == SeqsUpTo(S, n - 1)
         IN  shorter \cup {Append(t, x) : t \in {q \in shorter : Len(q) = n - 1}, x \in S}

Segments == SeqsUpTo(SegChars, MaxSegLen)

\* str::contains(char).
Contains(segment, ch) == \E i \in DOMAIN segment : segment[i] = ch

\* ensure_segment with the backslash test left out.
ensure_segment_slash_only(segment) ==
    /\ segment # <<>>
    /\ ~Contains(segment, "/")
    /\ segment # <<".">>
    /\ segment # <<".", ".">>

\* StorageImpl::ensure_segment: TRUE for Ok(()), FALSE for the three bails.
ensure_segment(segment) ==
    IF segment = <<>> THEN FALSE
    ELSE IF Contains(segment, "/") \/ Contains(segment, "\\") THEN FALSE
    ELSE IF segment = <<".">> \/ segment = <<".", ".">> THEN FALSE
    ELSE TRUE

\* the storage root as a path: a sequence of components.
RootPath == <<StorageRoot>>

\* PathBuf::join: an absolute component replaces the path, any other is
\* appended.
PathJoin(base, segment) ==
    IF segment # <<>> /\ segment[1] = "/" THEN <<segment>> ELSE Append(base, segment)

\* resolve_path without the validation of its segments.
resolve_path_unchecked(device_uuid, object_key) ==
    [kind |-> "ok", path |-> PathJoin(PathJoin(RootPath, device_uuid), object_key)]

\* StorageImpl::resolve_path.
resolve_path(device_uuid, object_key) ==
    IF ~ensure_segment(device_uuid) THEN [kind |-> "err", path |-> <<>>]
    ELSE IF ~ensure_segment(object_key) THEN [kind |-> "err", path |-> <<>>]
    ELSE [kind |-> "ok", path |-> PathJoin(PathJoin(RootPath, device_uuid), object_key)]

PathOnly == UNCHANGED <<store, lifeVars, txVars, devVars, cacheVars, fsVars, httpVars>>

\* any two segments are given to resolve_path.
InitPath ==
    /\ StoreInit
    /\ LifeInit
    /\ TxInit
    /\ DevInit
    /\ CacheInit
    /\ FsInit
    /\ segA \in Segments
    /\ segB \in Segments
    /\ pres = NoPath

\* a call of resolve_path.
ResolveCall ==
    /\ PathOnly
    /\ pres = NoPath
    /\ pres' = resolve_path(segA, segB)
    /\ UNCHANGED <<segA, segB>>

NextPath == ResolveCall

SpecPath == InitPath /\ [][NextPath]_vars

\* ------------------------------------------------- the storage directory

\* the byte streams callers send: the empty one, two of one byte and one
\* that can arrive in two chunks.
Datas == {<<>>, <<"x">>, <<"y">>, <<"x", "y">>}

\* the shard keys and object keys callers pass, valid and invalid.
FsShards == {<<"a">>, <<".", ".">>}

FsKeys == {<<"a">>, <<"a", "\\">>}

\* the argument pairs of the storage calls: a valid pair, one with an
\* invalid shard key and one with an invalid object key.
FsArgs == {a \in FsShards \X FsKeys : ensure_segment(a[1]) \/ ensure_segment(a[2])}

\* Uuid::new_v4().to_string(): the n-th value drawn, each one new.
UuidDigits == <<"0", "1", "2", "3", "4", "5", "6", "7", "8", "9">>

UuidOf(n) == <<"u", UuidDigits[n + 1]>>

\* format!("{}.{}.part", object_key, Uuid::new_v4()).
TmpName(object_key, uuid) == object_key \o <<".">> \o uuid \o <<"p", "a", "r", "t">>

\* format!("{}.part", key).
UploadTempKey(key) == key \o <<".", "p", "a", "r", "t">>

\* Path::parent.
Parent(path) == SubSeq(path, 1, Len(path) - 1)

FileAt(files, path) == {f \in files : f.path = path}

Exists(files, path) == FileAt(files, path) # {}

Content(files, path) == (CHOOSE f \in FileAt(files, path) : TRUE).bytes

\* the file at path is created or replaced as a whole.
WriteFile(files, path, bytes) ==
    {f \in files : f.path # path} \cup {[path |-> path, bytes |-> bytes]}

\* File::create: the file exists and is empty afterwards.
create_file(files, path) == WriteFile(files, path, <<>>)

\* bytes reach the end of an open file.
append_file(files, path, bytes) == WriteFile(files, path, Content(files, path) \o bytes)

\* fs::create_dir_all: the directory and all its ancestors exist afterwards.
create_dir_all(ds, path) == ds \cup {SubSeq(path, 1, i) : i \in 1..Len(path)}

\* fs::rename: the target is replaced by the source file in one step.
rename(files, from, to) ==
    WriteFile({f \in files : f.path # from}, to, Content(files, from))

\* fs::remove_file, fault being an I/O error other than not-found.
remove_file(files, path, fault) ==
    IF fault THEN [res |-> "io_error", files |-> files]
    ELSE IF ~Exists(files, path) THEN [res |-> "not_found", files |-> files]
    ELSE [res |-> "ok", files |-> {f \in files : f.path # path}]

\* delete with a missing file reported as an error.
delete_strict(files, device_uuid, object_key, fault) ==
    LET r == resolve_path(device_uuid, object_key)
        rm == remove_file(files, r.path, fault)
    IN  IF r.kind = "err" THEN [kind |-> "err", files |-> files]
        ELSE IF rm.res = "ok" THEN [kind |-> "ok", files |-> rm.files]
        ELSE [kind |-> "err", files |-> rm.files]

\* StorageImpl::delete: Ok for a removed and for a missing file.
delete(files, device_uuid, object_key, fault) ==
    LET r == resolve_path(device_uuid, object_key)
        rm == remove_file(files, r.path, fault)
    IN  IF r.kind = "err" THEN [kind |-> "err", files |-> files]
        ELSE IF rm.res = "ok" THEN [kind |-> "ok", files |-> rm.files]
        ELSE IF rm.res = "not_found" THEN [kind |-> "ok", files |-> rm.files]
        ELSE [kind |-> "err", files |-> rm.files]

\* StorageImpl::read_all: fault is a failing open or read.
read_all(files, device_uuid, object_key, fault) ==
    LET r == resolve_path(device_uuid, object_key)
    IN  IF r.kind = "err" THEN [kind |-> "err", bytes |-> <<>>]
        ELSE IF fault \/ ~Exists(files, r.path) THEN [kind |-> "err", bytes |-> <<>>]
        ELSE [kind |-> "ok", bytes |-> Content(files, r.path)]

\* StorageImpl::open_reader: the handle reads the file it was opened on.
open_reader(files, device_uuid, object_key, fault) ==
    LET r == resolve_path(device_uuid, object_key)
    IN  IF r.kind = "err" THEN [kind |-> "err", bytes |-> <<>>]
        ELSE IF fault \/ ~Exists(files, r.path) THEN [kind |-> "err", bytes |-> <<>>]
        ELSE [kind |-> "reader", bytes |-> Content(files, r.path)]

WriteErr == [kind |-> "err", path |-> <<>>, total |-> 0]

FsOnly == UNCHANGED <<store, lifeVars, txVars, devVars, cacheVars, pathVars>>

InitFs ==
    /\ StoreInit
    /\ LifeInit
    /\ TxInit
    /\ DevInit
    /\ CacheInit
    /\ PathInit
    /\ FsInit

\* a storage call or an upload request is started; the writing ones are
\* counted.
FsStart(op, shard, key) ==
    /\ IF op \in {"write_stream", "upload"}
       THEN nfs < MaxFsOps /\ nfs' = nfs + 1
       ELSE UNCHANGED nfs
    /\ lastOp' = [op |-> op, shard |-> shard, key |-> key]
    /\ op \notin {"read_all", "open_reader"} => lastRead' = NoBytes
    /\ op # "delete" => lastDel' = "none"

\* ------------------------------------------------ the object metadata

\* get_by_key without the condition on the deleted column.
get_by_key_any(f, key) ==
    LET hits == {i \in DOMAIN f : f[i].key = key}
    IN  IF hits = {} THEN <<>>
        ELSE <<f[CHOOSE i \in hits : \A j \in hits : i <= j]>>

\* FileRepoImpl::insert_file: INSERT INTO files with deleted = 0.
insert_file(f, key, size, path) ==
    Append(f, [key |-> key, size |-> size, path |-> path, deleted |-> 0])

\* FileRepoImpl::get_by_key: the first row WHERE key = ? AND deleted = 0,
\* an Option written as a sequence of no row or one.
get_by_key(f, key) ==
    LET hits == {i \in DOMAIN f : f[i].key = key /\ f[i].deleted = 0}
    IN  IF hits = {} THEN <<>>
        ELSE <<f[CHOOSE i \in hits : \A j \in hits : i <= j]>>

\* FileRepoImpl::soft_delete: UPDATE files SET deleted = 1 WHERE key = ?.
soft_delete(f, key) ==
    [i \in DOMAIN f |-> IF f[i].key = key THEN [f[i] EXCEPT !.deleted = 1] ELSE f[i]]

\* the keys of GET and DELETE requests: those uploads draw and one no
\* upload draws.
HttpKeys == {UuidOf(n) : n \in 0..(MaxUploads - 1)} \cup {<<"z">>}

\* write_stream up to the creation of its temp file.
WsCall(device_uuid, object_key, data, out) ==
    /\ FsOnly
    /\ UNCHANGED httpVars
    /\ ws.pc = "idle"
    /\ FsStart("write_stream", device_uuid, object_key)
    /\ LET final_path == resolve_path(device_uuid, object_key)
           parent == Parent(final_path.path)
           tmp_path == PathJoin(parent, TmpName(object_key, UuidOf(nextId)))
       IN  IF final_path.kind = "err" \/ out = "mkdir_err"
           THEN /\ wsRes' = WriteErr
                /\ UNCHANGED <<fsfiles, fsdirs, nextId, ws, requested>>
           ELSE IF out = "create_err"
           THEN /\ wsRes' = WriteErr
                /\ fsdirs' = create_dir_all(fsdirs, parent)
                /\ nextId' = nextId + 1
                /\ UNCHANGED <<fsfiles, ws, requested>>
           ELSE /\ wsRes' = NoWritten
                /\ fsdirs' = create_dir_all(fsdirs, parent)
                /\ nextId' = nextId + 1
                /\ fsfiles' = create_file(fsfiles, tmp_path)
                /\ ws' = [pc |-> "loop", shard |-> device_uuid, key |-> object_key,
                          rest |-> data, total |-> 0, tmp |-> tmp_path,
                          final |-> final_path.path, werr |-> FALSE]
                /\ requested' = requested \cup {[path |-> final_path.path, bytes |-> data]}
    /\ UNCHANGED <<up, upResp>>

\* one round of a copy loop on task t: out "ok" writes the n bytes read;
\* out "late" is a write that fails after write_all has returned Ok, with
\* only landed of the n bytes in the file and the error kept in the handle
\* for the next write or flush to report.
CopyRound(t, n, out, landed) ==
    [t EXCEPT !.rest = SubSeq(t.rest, n + 1, Len(t.rest)),
              !.total = t.total + n,
              !.werr = (out = "late")]

CopyBytes(t, n, out, landed) == SubSeq(t.rest, 1, IF out = "late" THEN landed ELSE n)

\* one round of the loop of write_stream.
WsStep(n, out, landed) ==
    /\ FsOnly
    /\ UNCHANGED httpVars
    /\ ws.pc = "loop"
    /\ IF out = "read_err"
       THEN /\ wsRes' = WriteErr
            /\ ws' = NoTask
            /\ UNCHANGED fsfiles
       ELSE IF n = 0
       THEN /\ ws.rest = <<>>
            /\ ws' = [ws EXCEPT !.pc = "finish"]
            /\ UNCHANGED <<fsfiles, wsRes>>
       ELSE /\ n <= Len(ws.rest)
            /\ IF ws.werr
               THEN /\ wsRes' = WriteErr
                    /\ ws' = NoTask
                    /\ UNCHANGED fsfiles
               ELSE /\ fsfiles' = append_file(fsfiles, ws.tmp, CopyBytes(ws, n, out, landed))
                    /\ ws' = CopyRound(ws, n, out, landed)
                    /\ UNCHANGED wsRes
    /\ UNCHANGED <<fsdirs, nextId, up, upResp, lastRead, lastDel, requested, nfs, lastOp>>

\* write_stream from the flush, whose result is dropped, to the rename.
WsFinish(out) ==
    /\ FsOnly
    /\ UNCHANGED httpVars
    /\ ws.pc = "finish"
    /\ IF out = "rename_err"
       THEN /\ wsRes' = WriteErr
            /\ UNCHANGED fsfiles
       ELSE /\ wsRes' = [kind |-> "ok", path |-> ws.final, total |-> ws.total]
            /\ fsfiles' = rename(fsfiles, ws.tmp, ws.final)
    /\ ws' = NoTask
    /\ UNCHANGED <<fsdirs, nextId, up, upResp, lastRead, lastDel, requested, nfs, lastOp>>

\* StorageImpl::read_all.
ReadAll(device_uuid, object_key, fault) ==
    /\ FsOnly
    /\ UNCHANGED httpVars
    /\ FsStart("read_all", device_uuid, object_key)
    /\ lastRead' = read_all(fsfiles, device_uuid, object_key, fault)
    /\ UNCHANGED <<fsfiles, fsdirs, nextId, ws, wsRes, up, upResp, requested>>

\* StorageImpl::open_reader.
OpenReader(device_uuid, object_key, fault) ==
    /\ FsOnly
    /\ UNCHANGED httpVars
    /\ FsStart("open_reader", device_uuid, object_key)
    /\ lastRead' = open_reader(fsfiles, device_uuid, object_key, fault)
    /\ UNCHANGED <<fsfiles, fsdirs, nextId, ws, wsRes, up, upResp, requested>>

\* StorageImpl::delete.
Delete(device_uuid, object_key, fault) ==
    /\ FsOnly
    /\ UNCHANGED httpVars
    /\ FsStart("delete", device_uuid, object_key)
    /\ LET d == delete(fsfiles, device_uuid, object_key, fault)
       IN  /\ lastDel' = d.kind
           /\ fsfiles' = d.files
    /\ UNCHANGED <<fsdirs, nextId, ws, wsRes, up, upResp, requested>>

\* the upload handler up to the creation of its temp file.  sel is the
\* answer of get_or_fetch; out picks the step that fails, if any.
UpCall(sel, body, out) ==
    /\ FsOnly
    /\ UNCHANGED httpVars
    /\ up.pc = "idle"
    /\ LET key == UuidOf(nextId)
           temp_path == resolve_path(sel.uuid, UploadTempKey(key))
           final_path == resolve_path(sel.uuid, key)
           parent == Parent(temp_path.path)
       IN  /\ FsStart("upload", sel.uuid, key)
           /\ IF out = "no_part" \/ out = "item_err"
              THEN /\ upResp' = 400
                   /\ UNCHANGED <<fsfiles, fsdirs, nextId, up, requested>>
              ELSE IF sel.kind # "ok"
              THEN /\ upResp' = 503
                   /\ nextId' = nextId + 1
                   /\ UNCHANGED <<fsfiles, fsdirs, up, requested>>
              ELSE IF temp_path.kind = "err" \/ out = "mkdir_err"
              THEN /\ upResp' = 500
                   /\ nextId' = nextId + 1
                   /\ UNCHANGED <<fsfiles, fsdirs, up, requested>>
              ELSE IF out = "create_err"
              THEN /\ upResp' = 500
                   /\ nextId' = nextId + 1
                   /\ fsdirs' = create_dir_all(fsdirs, parent)
                   /\ UNCHANGED <<fsfiles, up, requested>>
              ELSE /\ upResp' = 0
                   /\ nextId' = nextId + 1
                   /\ fsdirs' = create_dir_all(fsdirs, parent)
                   /\ fsfiles' = create_file(fsfiles, temp_path.path)
                   /\ up' = [pc |-> "loop", shard |-> sel.uuid, key |-> key,
                             rest |-> body, total |-> 0, tmp |-> temp_path.path,
                             final |-> final_path.path, werr |-> FALSE]
                   /\ requested' = requested \cup {[path |-> final_path.path, bytes |-> body]}
    /\ UNCHANGED <<ws, wsRes>>

\* one round of the chunk loop of upload.
UpStep(n, out, landed) ==
    /\ FsOnly
    /\ UNCHANGED httpVars
    /\ up.pc = "loop"
    /\ IF out = "chunk_err"
       THEN /\ upResp' = 400
            /\ up' = NoTask
            /\ UNCHANGED fsfiles
       ELSE IF n = 0
       THEN /\ up.rest = <<>>
            /\ up' = [up EXCEPT !.pc = "finish"]
            /\ UNCHANGED <<fsfiles, upResp>>
       ELSE /\ n <= Len(up.rest)
            /\ IF up.werr
               THEN /\ upResp' = 500
                    /\ up' = NoTask
                    /\ UNCHANGED fsfiles
               ELSE /\ fsfiles' = append_file(fsfiles, up.tmp, CopyBytes(up, n, out, landed))
                    /\ up' = CopyRound(up, n, out, landed)
                    /\ UNCHANGED upResp
    /\ UNCHANGED <<fsdirs, nextId, ws, wsRes, lastRead, lastDel, requested, nfs, lastOp>>

\* upload from the flush, whose result is dropped, to the rename.
UpRename(out) ==
    /\ FsOnly
    /\ UNCHANGED httpVars
    /\ up.pc = "finish"
    /\ IF out = "rename_err"
       THEN /\ upResp' = 500
            /\ up' = NoTask
            /\ UNCHANGED fsfiles
       ELSE /\ fsfiles' = rename(fsfiles, up.tmp, up.final)
            /\ up' = [up EXCEPT !.pc = "insert"]
            /\ UNCHANGED upResp
    /\ UNCHANGED <<fsdirs, nextId, ws, wsRes, lastRead, lastDel, requested, nfs, lastOp>>

\* upload from insert_file to the response.
UpInsert(out) ==
    /\ FsOnly
    /\ up.pc = "insert"
    /\ upResp' = IF out = "db_err" THEN 500 ELSE 200
    /\ filesTable' = IF out = "db_err" THEN filesTable
                     ELSE insert_file(filesTable, up.key, up.total, up.final)
    /\ up' = NoTask
    /\ UNCHANGED <<df, http>>
    /\ UNCHANGED <<fsfiles, fsdirs, nextId, ws, wsRes, lastRead, lastDel, requested, nfs, lastOp>>

\* -------------------------------------- GET and DELETE /files/{key}

\* the download handler: `ok` is whether the store answers; the file is
\* opened at the recorded path.
download(f, fs, key, ok) ==
    IF ~ok THEN 500
    ELSE IF get_by_key(f, key) = <<>> THEN 404
    ELSE IF Exists(fs, get_by_key(f, key)[1].path) THEN 200
    ELSE 404

\* GET /files/{key}.
Download(key, ok) ==
    /\ FsOnly
    /\ http' = [op |-> "GET", key |-> key, status |-> download(filesTable, fsfiles, key, ok)]
    /\ UNCHANGED <<fsVars, filesTable, df>>

\* DELETE /files/{key}, the lookup: a store error answers 500, no record
\* 404, and a record starts the removal.
DfGet(key, ok) ==
    /\ FsOnly
    /\ df.pc = "idle"
    /\ IF ~ok
       THEN /\ http' = [op |-> "DELETE", key |-> key, status |-> 500]
            /\ UNCHANGED df
       ELSE IF get_by_key(filesTable, key) = <<>>
       THEN /\ http' = [op |-> "DELETE", key |-> key, status |-> 404]
            /\ UNCHANGED df
       ELSE /\ df' = [pc |-> "remove", key |-> key,
                      path |-> get_by_key(filesTable, key)[1].path]
            /\ UNCHANGED http
    /\ UNCHANGED <<fsVars, filesTable>>

\* DELETE /files/{key}, remove_file at the recorded path: an error is
\* logged at most.
DfRemove(fault) ==
    /\ FsOnly
    /\ df.pc = "remove"
    /\ fsfiles' = remove_file(fsfiles, df.path, fault).files
    /\ df' = [df EXCEPT !.pc = "soft"]
    /\ UNCHANGED <<fsdirs, nextId, ws, wsRes, up, upResp, lastRead, lastDel,
                   requested, nfs, lastOp, filesTable, http>>

\* DELETE /files/{key}, soft_delete and the answer.
DfSoft(ok) ==
    /\ FsOnly
    /\ df.pc = "soft"
    /\ IF ok
       THEN /\ filesTable' = soft_delete(filesTable, df.key)
            /\ http' = [op |-> "DELETE", key |-> df.key, status |-> 200]
       ELSE /\ http' = [op |-> "DELETE", key |-> df.key, status |-> 500]
            /\ UNCHANGED filesTable
    /\ df' = [pc |-> "idle", key |-> <<>>, path |-> <<>>]
    /\ UNCHANGED fsVars

\* the answers get_or_fetch gives an upload.
Selections == {[kind |-> "ok", uuid |-> u] : u \in FsShards}
                  \cup {[kind |-> "unavailable", uuid |-> <<>>]}

NextFs ==
    \/ \E a \in FsArgs, data \in Datas, out \in {"ok", "mkdir_err", "create_err"} :
           WsCall(a[1], a[2], data, out)
    \/ \E n \in 0..Len(ws.rest), out \in {"ok", "late", "read_err"}, landed \in 0..Len(ws.rest) :
           /\ (out = "late" => landed < n) /\ (out # "late" => landed = 0)
           /\ WsStep(n, out, landed)
    \/ \E out \in {"ok", "rename_err"} : WsFinish(out)
    \/ \E a \in FsArgs, fault \in BOOLEAN : ReadAll(a[1], a[2], fault)
    \/ \E a \in FsArgs : OpenReader(a[1], a[2], FALSE)
    \/ \E a \in FsArgs, fault \in BOOLEAN : Delete(a[1], a[2], fault)

SpecFs == InitFs /\ [][NextFs]_vars

NextUpload ==
    \/ \E sel \in Selections, body \in Datas,
          out \in {"ok", "no_part", "item_err", "mkdir_err", "create_err"} :
           UpCall(sel, body, out)
    \/ \E n \in 0..Len(up.rest), out \in {"ok", "late", "chunk_err"}, landed \in 0..Len(up.rest) :
           /\ (out = "late" => landed < n) /\ (out # "late" => landed = 0)
           /\ UpStep(n, out, landed)
    \/ \E out \in {"ok", "rename_err"} : UpRename(out)
    \/ \E out \in {"ok", "db_err"} : UpInsert(out)

SpecUpload == InitFs /\ [][NextUpload]_vars

\* the three routes of the server together: uploads of one shard, and GET
\* and DELETE requests arriving at any point of them.
NextHttp ==
    \/ \E body \in {<<>>, <<"x">>}, out \in {"ok", "create_err"} :
           /\ nfs < MaxUploads
           /\ UpCall([kind |-> "ok", uuid |-> <<"a">>], body, out)
    \/ \E n \in 0..Len(up.rest), out \in {"ok", "late", "chunk_err"}, landed \in 0..Len(up.rest) :
           /\ (out = "late" => landed < n) /\ (out # "late" => landed = 0)
           /\ UpStep(n, out, landed)
    \/ \E out \in {"ok", "rename_err"} : UpRename(out)
    \/ \E out \in {"ok", "db_err"} : UpInsert(out)
    \/ \E key \in HttpKeys, ok \in BOOLEAN : Download(key, ok)
    \/ \E key \in HttpKeys, ok \in BOOLEAN : DfGet(key, ok)
    \/ \E fault \in BOOLEAN : DfRemove(fault)
    \/ \E ok \in BOOLEAN : DfSoft(ok)

SpecHttp == InitFs /\ [][NextHttp]_vars

\* ------------------------------------------------------------------ claims

\* the rows of the store holding a uuid.
RowsOf(s, uuid) == {i \in DOMAIN s : s[i].uuid = uuid}

\* C1: a reconciliation pass never invokes mount for, and never sets
\* mount_success on, a device record whose joined flag is false: whenever
\* the mount command runs for a candidate, the record of that candidate's
\* uuid exists and is joined, and every row a pass writes a mount result to
\* is joined.
C1_AdmissionGate ==
    [][ /\ (\E mok \in BOOLEAN : TickMount(mok)) =>
              /\ RowsOf(store, Head(rows).uuid) # {}
              /\ \A i \in RowsOf(store, Head(rows).uuid) : store[i].joined = 1
        /\ TickPersist(TRUE) =>
              \A i \in DOMAIN store :
                  (store[i].devnode = tgt.devnode /\ store[i].uuid = tgt.uuid)
                      => store[i].joined = 1
        /\ \A i \in DOMAIN store :
              (store[i].mount_success = 0 /\ store'[i].mount_success = 1)
                  => store[i].joined = 1 ]_vars

\* C1 witness: a pass has mounted a joined candidate and is about to persist
\* the result while a present record that was never admitted stays unmounted.
C1_Witness ==
    /\ tpc = "persist"
    /\ \E i \in DOMAIN store :
          /\ store[i].joined = 0
          /\ store[i].removed = 0
          /\ store[i].mount_success = 0
          /\ store[i].uuid # tgt.uuid

\* both drivers are between operations: the pass is over and no event is
\* half handled.
Quiescent == tpc = "sleep" /\ epc = "poll"

\* C2: once a remove event and a reconciliation pass that raced on the same
\* record have both finished, a record whose last applied event is a removal
\* has removed = 1 and mount_success = 0.
C2_RemoveWinsAtQuiescence ==
    Quiescent =>
        \A i \in DOMAIN store :
            (store[i].uuid \in UUIDs /\ lastEvent[store[i].uuid] = "remove")
                => (store[i].removed = 1 /\ store[i].mount_success = 0)

\* C3: the removed flag of a uuid's record always equals the kind of the
\* event most recently applied to that uuid: 0 after an add, 1 after a
\* remove, whatever reconciliation steps are interleaved.
C3_RemovedFollowsLastEvent ==
    \A u \in UUIDs :
        /\ lastEvent[u] = "none" => RowsOf(store, u) = {}
        /\ lastEvent[u] # "none" => RowsOf(store, u) # {}
        /\ \A i \in RowsOf(store, u) :
              /\ lastEvent[u] \in {"add", "readd"} => store[i].removed = 0
              /\ lastEvent[u] = "remove" => store[i].removed = 1

\* C3 witness: a remove was applied while a pass held the record as a
\* candidate, the pass then wrote its mount result, and a later add revived
\* the same record.
C3_Witness ==
    \E i \in DOMAIN store :
        /\ store[i].uuid \in UUIDs
        /\ lastEvent[store[i].uuid] = "readd"
        /\ store[i].removed = 0
        /\ store[i].mount_success = 1
        /\ ~is_mounted(mounts, store[i].devnode)

\* C4: the store holds at most one record per uuid in every reachable state,
\* also while two callers run upsert_device for the same new uuid at once,
\* and every uuid of which an upsert committed has exactly one record.
C4_OneRecordPerUuid ==
    /\ \A u \in UUIDs : Cardinality(RowsOf(store, u)) <= 1
    /\ \A u \in upserted : Cardinality(RowsOf(store, u)) = 1

\* C4 witness: one caller is inside its transaction, its UPDATE having
\* matched no row, while the other caller has called upsert_device for the
\* same uuid, which has no record yet.
C4_Witness ==
    \E c \in Callers, o \in Callers :
        /\ c # o
        /\ cpc[c] = "updated"
        /\ cupd[c] = 0
        /\ cpc[o] = "call"
        /\ carg[o].uuid = carg[c].uuid
        /\ RowsOf(store, carg[c].uuid) = {}

\* C5: discovery never admits: a row created by an add event has joined = 0,
\* and no step other than the admission action changes the joined flag of an
\* existing row.
C5_DiscoveryNeverAdmits ==
    [][ \/ \E u \in UUIDs : Admit(u)
        \/ /\ Len(store') >= Len(store)
           /\ \A i \in DOMAIN store : store'[i].joined = store[i].joined
           /\ \A j \in DOMAIN store' \ DOMAIN store : store'[j].joined = 0 ]_vars

\* C5 witness: a record that was discovered, removed and rediscovered, then
\* seen by a reconciliation pass, is still not joined and not mounted.
C5_Witness ==
    /\ ntick > 0
    /\ \E i \in DOMAIN store :
          /\ store[i].uuid \in UUIDs
          /\ lastEvent[store[i].uuid] = "readd"
          /\ store[i].joined = 0
          /\ store[i].mount_success = 0

\* C6: an add event for a uuid that already has a record updates that same
\* record: removed becomes 0 and joined keeps its value, and no row is added,
\* so an admitted device is still admitted after remove and re-add.
C6_ReaddKeepsAdmission ==
    [][ nev' # nev =>
          \A u \in UUIDs :
            (/\ RowsOf(store, u) # {}
             /\ \E d \in Devnodes, ts \in Timestamps : EventAdd(d, u, ts, TRUE))
            => \A i \in RowsOf(store, u) :
                    /\ Len(store') = Len(store)
                    /\ store'[i].uuid = u
                    /\ store'[i].removed = 0
                    /\ store'[i].joined = store[i].joined ]_vars

\* C6 witness: an admitted record was removed and re-added and is now
\* present and still joined.
C6_Witness ==
    \E i \in DOMAIN store :
        /\ store[i].uuid \in UUIDs
        /\ lastEvent[store[i].uuid] = "readd"
        /\ store[i].joined = 1
        /\ store[i].removed = 0

\* C7: mkfs.ext4 is run during reconciliation only when auto_format is set
\* and the probe found no filesystem; the flag is off unless given on the
\* command line, and with it off mkfs is never run on any device and a probe
\* that finds no filesystem is answered with the warning only.
C7_FormatOnlyWhenAllowed ==
    /\ ~flagGiven => ~auto_format
    /\ ~auto_format => formatted = {}
    /\ lastEnsure # NoEnsure =>
          /\ lastEnsure.ran => (auto_format /\ lastEnsure.probed /\ ~lastEnsure.hadFs)
          /\ (~auto_format /\ lastEnsure.probed /\ ~lastEnsure.hadFs)
                => (lastEnsure.warn /\ ~lastEnsure.ran)
          /\ lastEnsure.hadFs => (~lastEnsure.ran /\ ~lastEnsure.warn)

\* C7 witness: with the flag set a device without a filesystem was formatted,
\* and a pass then found the filesystem of another device and left it alone.
C7_Witness ==
    /\ auto_format
    /\ formatted # {}
    /\ lastEnsure # NoEnsure
    /\ lastEnsure.hadFs
    /\ lastEnsure.dev \notin formatted

\* C8: once the TTL has elapsed since the last refresh, the store is queried
\* once for that expiry: no two requests have both run list_joined_active
\* after finding the same expired snapshot.
C8_OneQueryPerExpiry ==
    \A c1, c2 \in Callers :
        (c1 # c2 /\ rpc[c1] = "write" /\ rpc[c2] = "write"
                 /\ rloc[c1].seen # NoSeen)
            => rloc[c1].seen # rloc[c2].seen

\* C9: a request that reads a snapshot of at least one uuid less than ttl
\* after its refresh is answered with a uuid of that snapshot, and neither
\* goes on to the store query nor changes the snapshot.
C9_FreshSnapshotAnswers ==
    [][\A c \in Callers :
          (/\ rpc[c] = "start"
           /\ rpc'[c] # "start"
           /\ cache.filled
           /\ now - cache.ts < ttl
           /\ cache.uuids # <<>>)
          => /\ rpc'[c] = "idle"
             /\ lastRes'.kind = "hit"
             /\ \E i \in DOMAIN cache.uuids : cache.uuids[i] = lastRes'.uuid
             /\ cache' = cache
             /\ rloc' = rloc]_vars

\* C9 witness: a request was answered from a snapshot refreshed earlier but
\* less than ttl ago, and no request is on its way to the store.
C9_Witness ==
    /\ lastRes.kind = "hit"
    /\ lastRes.age >= 1
    /\ lastRes.age < ttl
    /\ \A c \in Callers : rpc[c] = "idle"

\* C10: a request that finds no cached entries, the cache never filled or
\* filled with an empty snapshot, goes on to query the store.
C10_EmptyCacheRefreshes ==
    [][\A c \in Callers :
          (/\ rpc[c] = "start"
           /\ rpc'[c] # "start"
           /\ (~cache.filled \/ cache.uuids = <<>>))
          => rpc'[c] = "fetch"]_vars

\* no record is both present and mounted.
NoUsable(s) == \A i \in DOMAIN s : s[i].removed = 1 \/ s[i].mount_success = 0

\* a device that had been mounted has been removed.
MountedWasRemoved(s) ==
    \E i \in DOMAIN s : s[i].removed = 1 /\ s[i].mount_path # NULL

\* C11 as stated: once the remove of a mounted device is recorded and no
\* other device is mounted, every request's select() answers with no uuid.
C11_RemovedNeverSelected ==
    [][\A c \in Callers :
          (/\ rpc[c] = "start"
           /\ rpc'[c] = "idle"
           /\ MountedWasRemoved(store)
           /\ NoUsable(store))
          => (lastRes'.uuid = NULL /\ StatusOf(lastRes'.kind) = 503)]_vars

\* C11, amended: once the remove of a mounted device is recorded and no other
\* device is mounted, every select() that queries the store gets no
\* candidate and is answered with 503 and no uuid; only a request answered
\* from a snapshot cached earlier can still be given the removed device.
C11_RefreshAfterRemoveFails ==
    [][\A c \in Callers :
          /\ (/\ rpc[c] = "fetch"
              /\ rpc'[c] = "write"
              /\ MountedWasRemoved(store)
              /\ NoUsable(store))
             => rloc'[c].cands = <<>>
          /\ (/\ rpc[c] = "write"
              /\ rpc'[c] = "idle"
              /\ rloc[c].cands = <<>>)
             => (lastRes'.uuid = NULL /\ StatusOf(lastRes'.kind) = 503)
          /\ (/\ rpc[c] = "start"
              /\ rpc'[c] = "idle"
              /\ lastRes'.uuid # NULL)
             => (cache.filled /\ \E i \in DOMAIN cache.uuids :
                                    cache.uuids[i] = lastRes'.uuid)]_vars

\* C11 witness: the cached snapshot still names a device whose removal is
\* recorded, no device is usable, and a request that queried the store after
\* the removal holds an empty candidate list.
C11_Witness ==
    /\ MountedWasRemoved(store)
    /\ NoUsable(store)
    /\ cache.filled
    /\ \E i \in DOMAIN cache.uuids, j \in DOMAIN store :
          store[j].uuid = cache.uuids[i] /\ store[j].removed = 1
    /\ \E c \in Callers :
          rpc[c] = "write" /\ rloc[c].cands = <<>> /\ rloc[c].seen # NoSeen

\* C12: a refresh that finds no candidate is answered with 503 and no uuid,
\* never with a default; a refresh that finds candidates answers with one of
\* them; a store error during the refresh is answered with 503 and no uuid.
C12_EmptyRefreshUnavailable ==
    [][\A c \in Callers :
          /\ (rpc[c] = "write" /\ rpc'[c] = "idle") =>
                IF rloc[c].cands = <<>>
                THEN /\ lastRes'.uuid = NULL
                     /\ lastRes'.kind = "unavailable"
                     /\ StatusOf(lastRes'.kind) = 503
                ELSE /\ \E i \in DOMAIN rloc[c].cands : rloc[c].cands[i] = lastRes'.uuid
                     /\ StatusOf(lastRes'.kind) = 200
          /\ (rpc[c] = "fetch" /\ rpc'[c] = "idle") =>
                /\ lastRes'.uuid = NULL
                /\ lastRes'.kind = "store_error"
                /\ StatusOf(lastRes'.kind) = 503
                /\ cache' = cache]_vars

\* C12 witness: a refresh found devices recorded and admitted but none
\* mounted, cached the empty list and answered unavailable.
C12_Witness ==
    /\ lastRes.kind = "unavailable"
    /\ lastRes.uuid = NULL
    /\ cache.filled
    /\ cache.uuids = <<>>
    /\ cache.ts = now
    /\ \A i \in DOMAIN store :
          store[i].removed = 0 /\ store[i].joined = 1 /\ store[i].mount_success = 0
    /\ store # <<>>

\* the record of uuid u is present, admitted and mounted.
UsableIn(s, u) ==
    \E i \in DOMAIN s :
        /\ s[i].uuid = u
        /\ s[i].uuid # NULL
        /\ s[i].removed = 0
        /\ s[i].joined = 1
        /\ s[i].mount_success = 1

BadSegment(t) ==
    \/ Len(t) = 0
    \/ t = <<".">>
    \/ t = <<".", ".">>
    \/ \E i \in 1..Len(t) : t[i] \in {"/", "\\"}

\* C16: resolve_path answers an error when either segment is empty, '.',
\* '..' or contains '/' or '\', and else exactly root/shard/key, two
\* components below the storage root.
C16_ResolvePathValidates ==
    pres # NoPath =>
        IF BadSegment(segA) \/ BadSegment(segB)
        THEN pres.kind = "err"
        ELSE /\ pres.kind = "ok"
             /\ pres.path = <<StorageRoot, segA, segB>>
             /\ Len(pres.path) = Len(RootPath) + 2
             /\ SubSeq(pres.path, 1, Len(RootPath)) = RootPath

\* C16 witness: a key with a backslash in it was refused for a valid shard.
C16_Witness ==
    /\ pres.kind = "err"
    /\ ~BadSegment(segA)
    /\ \E i \in DOMAIN segB : segB[i] = "\\"
    /\ ~\E i \in DOMAIN segB : segB[i] = "/"

\* the byte sequences callers asked to be stored at path.
RequestedAt(path) == {r.bytes : r \in {q \in requested : q.path = path}}

\* the paths objects are stored at, as opposed to those of temp files.
FinalPaths == {r.path : r \in requested}

\* C14: a reader of a final path finds no file or the complete bytes of a
\* write to that path, never a partial prefix, at every step of write_stream
\* and also when it fails: each file at a final path, and each result of
\* read_all and open_reader, is the whole stream of a write_stream call.
C14_FinalPathComplete ==
    /\ \A f \in fsfiles : f.path \in FinalPaths => f.bytes \in RequestedAt(f.path)
    /\ lastRead.kind \in {"ok", "reader"} =>
           lastRead.bytes \in RequestedAt(resolve_path(lastOp.shard, lastOp.key).path)

\* C15: an upload that fails at any step answers with an error and no
\* partially written object is visible at its final path: a file at the
\* final path of an upload holds the whole body of that upload, and an
\* upload answered with 200 has left its object there.
C15_UploadNoPartialObject ==
    /\ \A r \in requested : Exists(fsfiles, r.path) => Content(fsfiles, r.path) = r.bytes
    /\ (lastOp.op = "upload" /\ up.pc = "idle" /\ upResp = 200) =>
           Exists(fsfiles, resolve_path(lastOp.shard, lastOp.key).path)

\* a step in which a storage call is made: the call changes the record of
\* the last call, or leaves the write_stream in progress as it is.
StorageCallStep == lastOp' # lastOp \/ (ws' = ws /\ vars' # vars)

\* C17: write_stream, read_all, open_reader and delete called with an
\* invalid shard key or object key return an error and leave the storage
\* directory as it was: no directory or temp file created, no file removed.
C17_InvalidInputsTouchNothing ==
    [][(StorageCallStep /\ (BadSegment(lastOp'.shard) \/ BadSegment(lastOp'.key))) =>
           /\ fsfiles' = fsfiles
           /\ fsdirs' = fsdirs
           /\ ws' = ws
           /\ lastOp'.op = "write_stream" => wsRes' = WriteErr
           /\ lastOp'.op \in {"read_all", "open_reader"} => lastRead'.kind = "err"
           /\ lastOp'.op = "delete" => lastDel' = "err"]_vars

\* C17 witness: a delete with an invalid shard key was refused while the
\* storage directory held a file.
C17_Witness ==
    /\ lastOp.op = "delete"
    /\ BadSegment(lastOp.shard)
    /\ lastDel = "err"
    /\ \E f \in fsfiles : f.path \in FinalPaths

\* the place of an object in the storage directory.
ObjectPath(shard, key) == <<StorageRoot, shard, key>>

ValidArgs(shard, key) == ~BadSegment(shard) /\ ~BadSegment(key)

\* C19: delete returns Ok when the file is absent and changes nothing then;
\* deleting twice gives the result and the directory of deleting once; an
\* error is returned only for an I/O error other than not-found (and for
\* invalid arguments), and nothing is removed then.  Stated of every delete
\* call, on the directory it is made on.
C19_DeleteIdempotent ==
    [][(StorageCallStep /\ lastOp'.op = "delete") =>
           LET shard == lastOp'.shard
               key == lastOp'.key
               once == delete(fsfiles, shard, key, FALSE)
               twice == delete(once.files, shard, key, FALSE)
               failed == delete(fsfiles, shard, key, TRUE)
           IN  /\ twice = once
               /\ failed.files = fsfiles
               /\ ValidArgs(shard, key) =>
                      /\ once.kind = "ok"
                      /\ failed.kind = "err"
                      /\ ~Exists(once.files, ObjectPath(shard, key))
                      /\ ~Exists(fsfiles, ObjectPath(shard, key)) => once.files = fsfiles
                      /\ lastDel' \in {"ok", "err"}
                      /\ lastDel' = "err" => fsfiles' = fsfiles
                      /\ lastDel' = "ok" => fsfiles' = once.files]_vars

\* C19 witness: a delete returned Ok although no object was ever written.
C19_Witness ==
    /\ lastOp.op = "delete"
    /\ ValidArgs(lastOp.shard, lastOp.key)
    /\ lastDel = "ok"
    /\ requested = {}

\* C18: a write_stream that returned Ok gave a path under root/shard and
\* the length of the stream D it was given; while the object is there,
\* read_all returns exactly D, and after delete it is gone.
C18_WriteReadRoundTrip ==
    (wsRes.kind = "ok" /\ Exists(fsfiles, wsRes.path)) =>
        \E a \in FsArgs :
            /\ wsRes.path = ObjectPath(a[1], a[2])
            /\ SubSeq(wsRes.path, 1, 2) = <<StorageRoot, a[1]>>
            /\ \E D \in RequestedAt(wsRes.path) :
                   /\ wsRes.total = Len(D)
                   /\ read_all(fsfiles, a[1], a[2], FALSE) = [kind |-> "ok", bytes |-> D]
            /\ ~Exists(delete(fsfiles, a[1], a[2], FALSE).files, wsRes.path)

\* C20: the upsert of a discovery is idempotent: on every store, for every
\* (devnode, uuid, ts), applying it twice gives the store that applying it
\* once gives: the same records with the same field values.
C20_UpsertIdempotent ==
    \A devnode \in Devnodes, uuid \in UUIDs, ts \in Timestamps :
        LET once == upsert_device(store, devnode, uuid, ts)
        IN  /\ upsert_device(once, devnode, uuid, ts) = once
            /\ Len(upsert_device(once, devnode, uuid, ts)) = Len(once)

\* C20 witness: a store holding a removed record that an upsert of its uuid
\* changes, and no record of another uuid, which an upsert inserts.
C20_Witness ==
    \E devnode \in Devnodes, uuid \in UUIDs, other \in UUIDs, ts \in Timestamps :
        /\ \E i \in DOMAIN store : store[i].uuid = uuid /\ store[i].removed = 1
        /\ upsert_device(store, devnode, uuid, ts) # store
        /\ RowsUpdated(store, other) = {}
        /\ Len(upsert_device(store, devnode, other, ts)) = Len(store) + 1

C22_MountedHasPath ==
    \A i \in DOMAIN store : store[i].mount_success = 1 => store[i].mount_path # NULL

\* C22 witness: a pass has persisted a mount result on a record.
C22_Witness ==
    /\ tpc = "loop"
    /\ \E i \in DOMAIN store :
           /\ store[i].mount_success = 1
           /\ store[i].mount_path = pick_mount_path(store[i].uuid)

\* C23: whenever the controller is about to record mount_success with mount
\* path P for a devnode, the device is mounted at P at the time of its
\* observation: its own mount at P just succeeded, or the mount table shows
\* the devnode at P.
C23_RecordsOnlyObservedMounts ==
    [][(tpc = "loop" /\ tpc' = "persist") =>
           [dev |-> tgt'.devnode, path |-> tgt'.path] \in mounts']_vars

\* a blkid answer that names no uuid: not run, failed, or nothing but
\* whitespace printed.
Unresolved(out) ==
    \/ ~out.spawned
    \/ ~out.success
    \/ \A i \in DOMAIN out.stdout : out.stdout[i] \in {" ", "\n"}

\* C24: rows are never created without a uuid: an add event whose uuid
\* probe is unresolved leaves the store as it is and is reported as success,
\* a resolved probe gives a non-empty uuid, and every record in the store has
\* a non-null, non-empty uuid.
C24_NoRowWithoutUuid ==
    /\ \A i \in DOMAIN store : store[i].uuid # NULL /\ store[i].uuid # ""
    /\ \A out \in BlkidOutputs :
           IF Unresolved(out)
           THEN \A devnode \in Devnodes, ts \in Timestamps, ok \in BOOLEAN :
                    add_event(store, devnode, fetch_uuid(out), ts, ok) =
                        [store |-> store, ret |-> "ok"]
           ELSE fetch_uuid(out) \in UUIDs

\* C24 witness: the event path has recorded two devices, and blkid printing
\* only whitespace for a further add event would leave the store as it is.
C24_Witness ==
    /\ Len(store) = 2
    /\ \A u \in UUIDs : lastEvent[u] = "add"
    /\ \E out \in BlkidOutputs :
           /\ out.success
           /\ out.stdout # <<>>
           /\ fetch_uuid(out) = NULL
           /\ add_event(store, "/dev/sdb", fetch_uuid(out), 1, TRUE).store = store

\* C25: the removed flag of a record goes from false to true only in the
\* store write of a remove event for the record's devnode, and from true to
\* false only in an add event carrying the record's uuid; no step of a
\* reconciliation pass and no mount-result write changes it.
C25_RemovedChangesOnlyByEvents ==
    [][\A i \in DOMAIN store :
           /\ (store[i].removed = 0 /\ store'[i].removed = 1) =>
                  /\ epc = "mark" /\ epc' = "poll"
                  /\ store[i].devnode = edev
                  /\ UNCHANGED <<tpc, rows, tgt>>
           /\ (store[i].removed = 1 /\ store'[i].removed = 0) =>
                  /\ epc = "poll" /\ epc' = "poll" /\ nev' = nev + 1
                  /\ lastEvent'[store[i].uuid] = "readd"
                  /\ store' = upsert_device(store, store'[i].devnode, store[i].uuid,
                                            store'[i].last_seen)
                  /\ UNCHANGED <<tpc, rows, tgt>>]_vars

\* C25 witness: a record that was mounted, removed by an event and brought
\* back by an add event of its uuid, while a pass is under way.
C25_Witness ==
    /\ tpc = "loop"
    /\ \E i \in DOMAIN store :
           /\ store[i].removed = 0
           /\ store[i].mount_success = 0
           /\ store[i].mount_path # NULL
           /\ lastEvent[store[i].uuid] = "readd"

\* a row of the key that is not soft-deleted.
Visible(key) ==
    \E i \in DOMAIN filesTable : filesTable[i].key = key /\ filesTable[i].deleted = 0

\* C26: for a key with no metadata row, or with soft-deleted rows only, a
\* GET answers not-found whenever the store answers (and never 200), and a
\* DELETE answers not-found or a store error, starts no removal and touches
\* nothing; a DELETE that answers 200 leaves no visible row of its key, a
\* soft-deleted row never becomes visible again and no later row takes the
\* key of an existing one, so every GET or DELETE after a successful DELETE
\* of a key finds it not visible and answers not-found.
C26_UnknownOrDeletedIsNotFound ==
    [][/\ \A key \in HttpKeys : ~Visible(key) =>
              /\ download(filesTable, fsfiles, key, TRUE) = 404
              /\ (http' # http /\ http'.op = "GET" /\ http'.key = key) =>
                     http'.status \in {404, 500}
              /\ (df.pc = "idle" /\ http' # http /\ http'.op = "DELETE"
                    /\ http'.key = key) =>
                     /\ http'.status \in {404, 500}
                     /\ UNCHANGED <<filesTable, fsfiles, df>>
              /\ (df.pc = "idle" /\ df'.pc # "idle") => df'.key # key
       /\ (df.pc = "soft" /\ df'.pc = "idle" /\ http'.status = 200) =>
              \A i \in DOMAIN filesTable' :
                  filesTable'[i].key = df.key => filesTable'[i].deleted = 1
       /\ \A i \in DOMAIN filesTable :
              /\ i \in DOMAIN filesTable'
              /\ filesTable'[i].key = filesTable[i].key
              /\ filesTable[i].deleted = 1 => filesTable'[i].deleted = 1
       /\ \A i \in DOMAIN filesTable' \ DOMAIN filesTable :
              \A j \in DOMAIN filesTable : filesTable[j].key # filesTable'[i].key]_vars

\* C26 witness: a DELETE answered not-found for a key whose row an earlier
\* DELETE soft-deleted, while the object's file is still on disk.
C26_Witness ==
    /\ http.op = "DELETE"
    /\ http.status = 404
    /\ \E i \in DOMAIN filesTable :
           /\ filesTable[i].key = http.key
           /\ filesTable[i].deleted = 1
           /\ Exists(fsfiles, filesTable[i].path)

\* the record of uuid is admitted and not removed.
Admitted(uuid) ==
    \E i \in DOMAIN store :
        store[i].uuid = uuid /\ store[i].joined = 1 /\ store[i].removed = 0

\* the device of uuid is mounted at the uuid-named directory under the
\* storage root and its record says so.
MountedAtOwnPath(uuid) ==
    /\ \E l \in mounts : l.path = <<StorageRoot, uuid>> /\ PresentUuid(l.dev) = uuid
    /\ \E i \in DOMAIN store :
           /\ store[i].uuid = uuid
           /\ store[i].mount_success = 1
           /\ store[i].mount_path = <<StorageRoot, uuid>>

\* C27: while devices stay present and the mount command and the store work,
\* the record an add event creates for a uuid is not joined and not mounted,
\* and when a record is admitted while the scheduler sleeps before its pass
\* number k + 1, that pass mounts the device at {root}/{uuid} and persists
\* mount_success = 1 and mount_path = {root}/{uuid}.
C27_AdmittedIsMountedNextTick ==
    /\ [][\A i \in DOMAIN store' \ DOMAIN store :
               /\ store'[i].joined = 0
               /\ store'[i].mount_success = 0
               /\ store'[i].uuid = PresentUuid(store'[i].devnode)]_vars
    /\ \A u \in UUIDs : \A k \in 0..(MaxTicks - 1) :
           (Admitted(u) /\ tpc = "sleep" /\ ntick = k)
               ~> (MountedAtOwnPath(u) /\ ntick = k + 1)

\* C27 witness: both devices were added and admitted, and the first pass
\* has mounted them and recorded it.
C27_Witness ==
    /\ ntick = 1
    /\ \A u \in UUIDs : Admitted(u) /\ MountedAtOwnPath(u)

\* C28: whatever fails (the probe, a store call, mount, umount), the
\* scheduler comes back to its sleep and starts its next pass, and the event
\* loop comes back to its poll; a pass that a store error ends is abandoned
\* as it is, with the store untouched, and a failed mount only moves the
\* pass on to the next row.
C28_DriversRunForever ==
    /\ []<>(tpc = "sleep")
    /\ []<>(epc = "poll")
    /\ \A k \in 0..(MaxTicks - 1) : (ntick = k) ~> (ntick = k + 1)
    /\ [][/\ (tpc = "persist" /\ tpc' \notin {"persist", "loop"}) =>
                 (tpc' = "sleep" /\ rows' = <<>> /\ store' = store)
          /\ (tpc = "loop" /\ rows' # rows) => (tpc' = "loop" /\ rows' = Tail(rows))
          /\ (tpc = "sleep" /\ ntick' # ntick) => tpc' \in {"sleep", "loop"}
          /\ epc' # epc => epc' \in {"poll", "mark"}]_vars

\* C28 witness: the first pass mounted the device of the only add event and
\* its store write failed, and the second pass has found the device mounted
\* and is about to write the result again.
C28_Witness ==
    /\ nev = 1
    /\ ntick = 2
    /\ tpc = "persist"
    /\ \E i \in DOMAIN store :
           /\ store[i].devnode = tgt.devnode
           /\ store[i].mount_success = 0
           /\ is_mounted(mounts, tgt.devnode)

\* C29: the snapshot changes only in the write of one caller's refresh, which
\* stores that caller's candidate list together with the time of the write
\* and leaves nothing of the snapshot it replaces, whatever the other caller
\* is doing; and a caller that reads the snapshot answers from the list and
\* the timestamp of one and the same snapshot.
C29_SnapshotReplacedWhole ==
    [][/\ cache' # cache =>
              \E c \in Callers :
                  /\ rpc[c] = "write" /\ rpc'[c] = "idle"
                  /\ cache' = [filled |-> TRUE, uuids |-> rloc[c].cands, ts |-> now]
       /\ \A c \in Callers :
              /\ (rpc[c] = "start" /\ rpc'[c] = "idle") =>
                     /\ cache.filled
                     /\ lastRes'.age = now - cache.ts
                     /\ IF cache.uuids = <<>>
                        THEN lastRes'.kind = "unavailable_cached"
                        ELSE /\ lastRes'.kind = "hit"
                             /\ \E i \in DOMAIN cache.uuids : lastRes'.uuid = cache.uuids[i]
              /\ (rpc[c] = "start" /\ rpc'[c] = "fetch" /\ cache.filled) =>
                     rloc'[c].seen = cache.ts]_vars

\* C29 witness: one caller reads the snapshot while the other is about to
\* replace it with a different list at a later time.
C29_Witness ==
    /\ rpc["c1"] = "start"
    /\ rpc["c2"] = "write"
    /\ cache.filled
    /\ cache.uuids # rloc["c2"].cands
    /\ cache.ts < now

\* the records the policy of get_active_uuid names: present, admitted,
\* mounted, with a uuid.
ActiveRows(s) ==
    {i \in DOMAIN s : /\ s[i].removed = 0 /\ s[i].joined = 1
                      /\ s[i].mount_success = 1 /\ s[i].uuid # NULL}

\* C30: whenever some record is present, admitted and mounted and has a
\* uuid, get_active_uuid returns the uuid of such a record, and it returns
\* None only when there is no such record.
C30_ActiveUuidFound ==
    IF ActiveRows(store) # {}
    THEN \E i \in ActiveRows(store) : get_active_uuid(store) = store[i].uuid
    ELSE get_active_uuid(store) = NULL

\* C31: when a pass handles a candidate whose devnode the mount table shows
\* at that moment, it runs no mount (the mount table and the store stay as
\* they are); a candidate recorded as mounted or without a uuid is passed
\* over, and one with mount_success = 0 goes to the store write only, of
\* mount_success = 1 and the target path for its devnode and uuid, after
\* which the pass continues with the next candidate.
C31_NoMountWhenMounted ==
    [][/\ (/\ tpc = "loop" /\ rows # <<>>
           /\ is_mounted(mounts, Head(rows).devnode)
           /\ (rows' # rows \/ tpc' # tpc)) =>
              /\ mounts' = mounts
              /\ store' = store
              /\ IF Head(rows).mount_success = 1 \/ Head(rows).uuid \in {NULL, ""}
                 THEN rows' = Tail(rows) /\ tpc' = "loop"
                 ELSE /\ rows' = rows
                      /\ tpc' = "persist"
                      /\ tgt' = [devnode |-> Head(rows).devnode,
                                 path |-> IF Head(rows).mount_path # NULL
                                          THEN Head(rows).mount_path
                                          ELSE <<StorageRoot, Head(rows).uuid>>,
                                 uuid |-> Head(rows).uuid]
       /\ (tpc = "persist" /\ tpc' = "loop") =>
              /\ store' = update_mount_result(store, tgt.devnode, tgt.path, tgt.uuid)
              /\ rows' = Tail(rows)]_vars

\* C31 witness: the pass is about to write the result for a candidate it
\* found mounted, at a mount point other than the candidate's target.
C31_Witness ==
    /\ tpc = "persist"
    /\ is_mounted(mounts, tgt.devnode)
    /\ [dev |-> tgt.devnode, path |-> tgt.path] \notin mounts

\* the head of the pass is a candidate the mount command is due for: it has
\* a uuid, is not recorded as mounted and the mount table does not show it.
DueForMount ==
    /\ tpc = "loop" /\ rows # <<>>
    /\ Head(rows).uuid \notin {NULL, ""}
    /\ Head(rows).mount_success = 0
    /\ \A l \in mounts : ~StartsWith(l.dev, Head(rows).devnode)

\* C32: the step of a pass on a candidate due for mount is a mount attempt;
\* when it fails, the store and the mount table are left as they are and the
\* pass goes on with the remaining candidates; and every pass lists every
\* record that is not removed and joined, so a record whose mount failed is
\* a candidate again, with mount_success = 0, in the next pass.
C32_FailedMountRetried ==
    [][/\ (DueForMount /\ (rows' # rows \/ tpc' # tpc)) =>
              \/ /\ tpc' = "persist" /\ rows' = rows /\ store' = store
                 /\ \E l \in mounts' : l.dev = Head(rows).devnode
              \/ /\ tpc' = "loop" /\ rows' = Tail(rows)
                 /\ store' = store /\ mounts' = mounts
       /\ (tpc = "sleep" /\ tpc' = "loop") =>
              \A i \in DOMAIN store :
                  (store[i].removed = 0 /\ store[i].joined = 1) =>
                      \E j \in DOMAIN rows' :
                          /\ rows'[j].devnode = store[i].devnode
                          /\ rows'[j].uuid = store[i].uuid
                          /\ rows'[j].mount_success = store[i].mount_success]_vars

\* C32 witness: in the second pass the second of two admitted, unmounted
\* records is due for mount while nothing is mounted and the first one is
\* still unmounted.
C32_Witness ==
    /\ DueForMount
    /\ ntick = 2
    /\ mounts = {}
    /\ Len(store) = 2
    /\ Len(rows) = 1
    /\ Head(rows).uuid = store[2].uuid
    /\ \A i \in DOMAIN store :
           store[i].removed = 0 /\ store[i].joined = 1 /\ store[i].mount_success = 0

\* every candidate of the store, and every candidate a pass under way still
\* holds, is recorded as mounted and shown by the mount table; no store
\* write of a pass is pending.
SteadyState ==
    /\ tpc \in {"sleep", "loop"}
    /\ \A i \in DOMAIN store :
           (store[i].removed = 0 /\ store[i].joined = 1) =>
               /\ store[i].mount_success = 1
               /\ \E l \in mounts : StartsWith(l.dev, store[i].devnode)
    /\ \A j \in DOMAIN rows :
           /\ rows[j].mount_success = 1
           /\ \E l \in mounts : StartsWith(l.dev, rows[j].devnode)

\* C33: a step of the scheduler in a steady state (the start of a pass, the
\* handling of a candidate, the end of a pass) runs no mount, writes nothing
\* to the store and leaves the state steady; so any number of passes with no
\* event and no change of the mount table in between leaves the store as one
\* pass leaves it, which is as it was.
C33_SteadyTickIdempotent ==
    [][(SteadyState /\ (tpc' # tpc \/ rows' # rows \/ ntick' # ntick)) =>
           /\ store' = store
           /\ mounts' = mounts
           /\ SteadyState']_vars

\* C33 witness: the second pass over a steady store with a candidate in it,
\* about to handle it.
C33_Witness ==
    /\ SteadyState
    /\ ntick = 2
    /\ tpc = "loop"
    /\ rows # <<>>
    /\ \E i \in DOMAIN store : store[i].uuid = Head(rows).uuid /\ store[i].removed = 0

\* C34: the target a pass chooses for a candidate is the candidate's recorded
\* mount_path when it has one and else {storage_root}/{uuid}; the line a
\* mount adds to the mount table is the candidate's devnode at that target;
\* and a recorded mount_path is always {storage_root}/{uuid} of its record,
\* so whatever events and passes came before, and wherever the uuid is
\* plugged in, it is mounted at that one path.
C34_SameUuidSamePath ==
    /\ [](\A i \in DOMAIN store :
              store[i].mount_path # NULL =>
                  store[i].mount_path = <<StorageRoot, store[i].uuid>>)
    /\ [][/\ (tpc = "loop" /\ tpc' = "persist") =>
                 /\ tgt'.uuid = Head(rows).uuid
                 /\ tgt'.path = IF Head(rows).mount_path # NULL
                                THEN Head(rows).mount_path
                                ELSE <<StorageRoot, Head(rows).uuid>>
                 /\ tgt'.path = <<StorageRoot, tgt'.uuid>>
          /\ \A l \in mounts' \ mounts :
                 /\ tpc = "loop" /\ tpc' = "persist"
                 /\ l = [dev |-> Head(rows).devnode, path |-> tgt'.path]]_vars

\* C34 witness: a uuid that was mounted, removed and added again at the
\* other devnode has just been mounted there, at its recorded path.
C34_Witness ==
    /\ tpc = "persist"
    /\ tgt.devnode = "/dev/sdc"
    /\ lastEvent[tgt.uuid] = "readd"
    /\ [dev |-> "/dev/sdc", path |-> <<StorageRoot, tgt.uuid>>] \in mounts
    /\ \E i \in DOMAIN store :
           /\ store[i].uuid = tgt.uuid
           /\ store[i].devnode = "/dev/sdc"
           /\ store[i].mount_success = 0
           /\ store[i].mount_path # NULL
           /\ store[i].mount_path = <<StorageRoot, tgt.uuid>>

\* C35: the handler of a remove event runs umount exactly when the mount
\* table shows the devnode, and leaves the mount table alone otherwise;
\* whatever umount answers, the store is then what mark_removed makes of it
\* and the handler's result is that of the store call alone.
C35_UnmountBestEffort ==
    \A d \in Devnodes, uok \in BOOLEAN, ts \in Timestamps, ok \in BOOLEAN :
        LET r == remove_event(store, mounts, d, uok, ts, ok)
            shown == \E l \in mounts : StartsWith(l.dev, d)
        IN  /\ r.umount = shown
            /\ ~shown => r.mounts = mounts
            /\ r.mounts \subseteq mounts
            /\ r.store = IF ok THEN mark_removed(store, d, ts) ELSE store
            /\ r.ret = IF ok THEN "ok" ELSE "err"

\* C35 witness: the record of a device that a pass had mounted and recorded
\* is marked removed by the only remove event while its devnode is still in
\* the mount table: umount failed, or was not run because the mount came
\* between the two halves of the handler.
C35_Witness ==
    /\ epc = "poll"
    /\ nev = 2
    /\ Len(store) = 1
    /\ store[1].removed = 1
    /\ store[1].mount_success = 0
    /\ store[1].mount_path # NULL
    /\ \E l \in mounts : l.dev = store[1].devnode

\* C36: on every reachable store, update_mount_result(devnode, mount_path,
\* uuid) sets mount_success and mount_path on the records whose devnode and
\* uuid both equal the arguments and leaves every other record, and every
\* other column, as it is; so when the record a pass read has moved to
\* another devnode since, or the devnode now carries another uuid, the write
\* of the pass changes nothing.
C36_MountResultByDevnodeAndUuid ==
    /\ \A d \in Devnodes, u \in UUIDs, w \in UUIDs :
           LET after == update_mount_result(store, d, <<StorageRoot, w>>, u)
           IN  /\ DOMAIN after = DOMAIN store
               /\ \A i \in DOMAIN store :
                      IF store[i].devnode = d /\ store[i].uuid = u
                      THEN after[i] = [store[i] EXCEPT !.mount_success = 1,
                                                       !.mount_path = <<StorageRoot, w>>]
                      ELSE after[i] = store[i]
    /\ (/\ tpc = "persist"
        /\ \A i \in DOMAIN store :
               store[i].devnode # tgt.devnode \/ store[i].uuid # tgt.uuid) =>
           update_mount_result(store, tgt.devnode, tgt.path, tgt.uuid) = store

\* C36 witness: a pass is about to write the result of a candidate whose
\* record has moved to the other devnode since the pass read it, while the
\* devnode it read carries the record of another uuid.
C36_Witness ==
    /\ tpc = "persist"
    /\ \E i \in DOMAIN store :
           store[i].uuid = tgt.uuid /\ store[i].devnode # tgt.devnode
    /\ \E i \in DOMAIN store :
           store[i].uuid # tgt.uuid /\ store[i].devnode = tgt.devnode

\* the devnode has an admitted record.
JoinedAt(devnode) ==
    \E i \in DOMAIN store : store[i].devnode = devnode /\ store[i].joined = 1

\* C37: the pass of the dev-mounter binary handles admitted records only:
\* every row it lists, every device it has probed for a filesystem, every
\* device it has formatted and every device it has mounted has a record with
\* joined = 1.
C37_DevPassOnlyJoined ==
    /\ \A j \in DOMAIN rows : JoinedAt(rows[j].devnode)
    /\ lastEnsure.probed => JoinedAt(lastEnsure.dev)
    /\ \A d \in formatted : JoinedAt(d)
    /\ \A l \in mounts : JoinedAt(l.dev)

\* the state of a uuid in the per-uuid state machine; Admitted and Unmounted
\* are the same record contents (present, joined, not mounted).
UuidState(s, u) ==
    IF \A i \in DOMAIN s : s[i].uuid # u THEN "Unknown"
    ELSE LET r == s[CHOOSE i \in DOMAIN s : s[i].uuid = u]
         IN  IF r.removed = 1 THEN "Removed"
             ELSE IF r.mount_success = 1 THEN "Mounted"
             ELSE IF r.joined = 1 THEN "Admitted"
             ELSE "Discovered"

\* the edges of the state machine, a removal being possible from every state
\* of a present record.
UuidEdges ==
    {<<"Unknown", "Discovered">>, <<"Discovered", "Admitted">>,
     <<"Admitted", "Mounted">>, <<"Mounted", "Admitted">>,
     <<"Discovered", "Removed">>, <<"Admitted", "Removed">>,
     <<"Mounted", "Removed">>,
     <<"Removed", "Discovered">>, <<"Removed", "Admitted">>}

\* C38: every step that changes the state of a uuid's record (Unknown,
\* Discovered, Admitted or Unmounted, Mounted, Removed) follows an edge of the
\* per-uuid state machine; a removed record returns only to Discovered or
\* Admitted, never directly to Mounted.
C38_PerUuidStateMachine ==
    [][\A u \in UUIDs :
           UuidState(store', u) # UuidState(store, u) =>
               <<UuidState(store, u), UuidState(store', u)>> \in UuidEdges]_vars

\* C39: a step in which a uuid's record stops having mount_success = 1 is the
\* store call of a remove event for the devnode of that record (mark_removed);
\* add events, admissions and every branch of a reconciliation tick leave a
\* recorded mount_success = 1 as it is, whatever the mount table says.
C39_OnlyMarkRemovedClearsMountSuccess ==
    [][\A i \in DOMAIN store :
           (/\ store[i].mount_success = 1
            /\ \A j \in DOMAIN store' :
                   store'[j].uuid = store[i].uuid => store'[j].mount_success # 1)
           => /\ epc = "mark" /\ epc' = "poll"
              /\ store[i].devnode = edev
              /\ store' = mark_removed(store, edev, store'[i].last_seen)]_vars

\* a present record with mount_success = 1 that an add event moved to a
\* devnode the mount table does not hold, its mount being held by the old
\* devnode, after a reconciliation tick has finished.
C39_Witness ==
    /\ tpc = "sleep"
    /\ ntick = 2
    /\ \E i \in DOMAIN store :
           /\ store[i].mount_success = 1
           /\ store[i].removed = 0
           /\ ~is_mounted(mounts, store[i].devnode)
           /\ store[i].mount_path # NULL
           /\ \E l \in mounts : l.path = store[i].mount_path

\* C40: in the upload handler a metadata record becomes visible only in the
\* step after a successful rename, with the whole body of the request in the
\* file at the recorded path and the recorded size equal to its length; a
\* request answered with an error inserts no record.
C40_RecordAfterCompleteRename ==
    [][/\ \A k \in HttpKeys :
              (get_by_key(filesTable, k) = <<>> /\ get_by_key(filesTable', k) # <<>>) =>
                  LET rec == get_by_key(filesTable', k)[1]
                  IN  /\ up.pc = "insert"
                      /\ rec.path = up.final
                      /\ Exists(fsfiles, rec.path)
                      /\ Content(fsfiles, rec.path) \in RequestedAt(rec.path)
                      /\ Len(Content(fsfiles, rec.path)) = rec.size
       /\ (upResp' # upResp /\ upResp' \in {400, 500, 503}) => filesTable' = filesTable]_vars

====
